---------------------------- MODULE Spec2Model ----------------------------
(***************************************************************************)
(* Model of the SukoonMiniBackend synchronisation and aggregation engine:  *)
(* EnergyCalculator (src/energy_calculator.py) mirroring the remote        *)
(* document store into the SQLite store of DatabaseManager                 *)
(* (src/database_manager.py), with the rating table of DeviceDataManager   *)
(* (src/device_data_manager.py).                                           *)
(*                                                                         *)
(* Conventions                                                             *)
(*  - a remote document is a function whose DOMAIN is the set of keys the  *)
(*    document holds, so dict.get(key, default) is modelled by get;        *)
(*  - a device type is a sequence of one-character strings, so that        *)
(*    str.lower() is computed character by character;                      *)
(*  - energies are exact decimals in units of 0.01 kWh (light: 6 per hour),*)
(*    hours are whole hours; the code uses IEEE doubles, whose rounding    *)
(*    (0.05 * 24.0 = 1.2000000000000002) is not modelled;                  *)
(*  - timestamps (created_at, last_updated) are not modelled;              *)
(*  - a date is the number of the day.                                     *)
(***************************************************************************)
EXTENDS Integers, Sequences, FiniteSets, TLC

VARIABLES
    db,            \* the SQLite database file: one field per table
    remote,        \* the remote document store (collections userHubs, devices, rooms)
    clock,         \* the wall-clock day last observed by datetime.now()
    pc,            \* position of fetch_and_store_all_data ("idle" between passes)
    hubs,          \* local: the list returned by get_all_hubs
    i,             \* local: index of the hub being processed
    devices,       \* local: the list returned by get_devices_by_hub_code
    rooms,         \* local: the list returned by get_rooms_by_hub_code
    j,             \* local: index in the device loop or the room loop
    calc,          \* locals of _calculate_and_store_daily_energy
    run,           \* the pass in progress: hubs processed so far, dates used
    passes,        \* completed passes, oldest first: what each returned and did
    failures,      \* remote fetches that have failed so far
    calls,         \* direct DatabaseManager calls made so far
    peer,          \* the locals of a second pass, of another process, while it waits
    sched,         \* position of run_scheduler ("off" when run_once runs the passes)
    last           \* the operation performed by the latest step, with its result

vars == <<db, remote, clock, pc, hubs, i, devices, rooms, j, calc, run, passes,
          failures, calls, peer, sched, last>>

-----------------------------------------------------------------------------
(* Bounds of the model *)

\* passes of fetch_and_store_all_data that are run
MaxPasses == 2
\* days the wall clock runs through
MaxDay == 2
\* remote fetches that may fail in one behaviour
MaxFailures == 1
\* direct DatabaseManager calls in a behaviour of SpecDb
MaxCalls == 4
\* times the processor is handed from one pass to the other in SpecRace
MaxSwitches == 2

-----------------------------------------------------------------------------
(* Python values *)

\* SQL NULL in a TEXT column
NULL == "NULL"

\* Python None where a device type (a character sequence) is expected
None == <<"None">>

\* dict.get(key, default)
get(doc, key, default) == IF key \in DOMAIN doc THEN doc[key] ELSE default

Upper == <<"A","B","C","D","E","F","G","H","I","J","K","L","M",
           "N","O","P","Q","R","S","T","U","V","W","X","Y","Z">>
LowerCase == <<"a","b","c","d","e","f","g","h","i","j","k","l","m",
               "n","o","p","q","r","s","t","u","v","w","x","y","z">>

\* str.lower(), one character
lower_char(c) ==
    IF \E n \in 1..Len(Upper) : Upper[n] = c
    THEN LowerCase[CHOOSE n \in 1..Len(Upper) : Upper[n] = c]
    ELSE c

\* a plausible slip: only the first character is lower-cased
lower_first_only(s) == [n \in 1..Len(s) |-> IF n = 1 THEN lower_char(s[n]) ELSE s[n]]

\* str.lower()
lower(s) == [n \in 1..Len(s) |-> lower_char(s[n])]

\* f"user_{hub_code}", for the hub codes of the model
user_(hub_code) ==
    CASE hub_code = "A" -> "user_A"
      [] hub_code = "B" -> "user_B"
      [] hub_code = "h1" -> "user_h1"
      [] hub_code = "h2" -> "user_h2"
      [] OTHER -> "user_unknown"

-----------------------------------------------------------------------------
(* DeviceDataManager.ENERGY_RATES, in 0.01 kWh per hour *)

ENERGY_RATES ==
    (<<"a","c">> :> 150)
    @@ (<<"a","i","r","c","o","n","d","i","t","i","o","n","e","r">> :> 150)
    @@ (<<"d","i","s","h","w","a","s","h","e","r">> :> 100)
    @@ (<<"t","v">> :> 10)
    @@ (<<"l","i","g","h","t">> :> 6)
    @@ (<<"t","h","e","r","m","o","s","t","a","t">> :> 5)
    @@ (<<"f","a","n">> :> 3)
    @@ (<<"d","o","o","r">> :> 1)
    @@ (<<"s","m","a","r","t","d","o","o","r">> :> 1)
    @@ (<<"h","e","a","t","c","o","n","v","e","c","t","o","r">> :> 120)
    @@ (<<"w","a","s","h","i","n","g","m","a","c","h","i","n","e">> :> 50)
    @@ (<<"s","p","e","a","k","e","r">> :> 10)

\* the device_type of a hub-total row
hub_total == <<"h","u","b","_","t","o","t","a","l">>


-----------------------------------------------------------------------------
(* DatabaseManager: the SQLite store *)

\* the schema created by _create_database, with no rows
EmptyDb ==
    [users |-> {}, hubs |-> {}, devices |-> {}, rooms |-> {},
     room_devices |-> {}, energy_daily |-> {}, hub_summary |-> {}]

\* the values of hubs.hub_code, the parent key of five foreign keys
HubCodes(d) == {h.hub_code : h \in d.hubs}

\* rows of the child tables of hubs(hub_code) that reference code
ChildRows(d, code) ==
    Cardinality({x \in d.devices : x.hub_code = code})
    + Cardinality({x \in d.rooms : x.hub_code = code})
    + Cardinality({x \in d.energy_daily : x.hub_code = code})
    + Cardinality({x \in d.hub_summary : x.hub_code = code})

\* id INTEGER PRIMARY KEY AUTOINCREMENT of energy_daily (its rows are never deleted)
NextId(d) == Cardinality(d.energy_daily) + 1

add_user(d, user_id) ==
    [db |-> [d EXCEPT !.users = @ \cup {user_id}], ret |-> TRUE]

\* the UPDATE or INSERT statement of add_hub, under PRAGMA foreign_keys = fk.
\* hub_code is UNIQUE; user_id references users; on an UPDATE that changes
\* hub_code SQLite counts the child rows left without parent against the
\* orphans the new key adopts, and fails the statement if any remain.
write_hub(d, row, fk) ==
    LET exists == \E h \in d.hubs : h.hub_id = row.hub_id
        old == CHOOSE h \in d.hubs : h.hub_id = row.hub_id
        others == {h \in d.hubs : h.hub_id # row.hub_id}
        unique_ok == \A h \in others : h.hub_code # row.hub_code
        child_ok == row.user_id \in d.users
        parent_ok == \/ ~exists
                     \/ old.hub_code = row.hub_code
                     \/ ChildRows(d, old.hub_code) <= ChildRows(d, row.hub_code)
        ok == unique_ok /\ (fk => (child_ok /\ parent_ok))
    IN  [ok |-> ok, db |-> IF ok THEN [d EXCEPT !.hubs = others \cup {row}] ELSE d]

\* a plausible slip: the hub row is written without the user being ensured
add_hub_without_user(d, hub_id, hub_code, user_id, home_type) ==
    LET uid == IF user_id = NULL \/ user_id = "" THEN user_(hub_code) ELSE user_id
        row == [hub_id |-> hub_id, hub_code |-> hub_code,
                user_id |-> uid, home_type |-> home_type]
        first == write_hub(d, row, TRUE)
        second == write_hub(d, row, FALSE)
    IN  IF first.ok THEN [db |-> first.db, ret |-> TRUE]
        ELSE IF second.ok THEN [db |-> second.db, ret |-> TRUE]
        ELSE [db |-> d, ret |-> FALSE]

\* user_id None is the NULL the statement would bind
add_hub(d, hub_id, hub_code, user_id, home_type) ==
    LET uid == IF user_id = NULL \/ user_id = "" THEN user_(hub_code) ELSE user_id
        d1 == add_user(d, uid).db
        row == [hub_id |-> hub_id, hub_code |-> hub_code,
                user_id |-> uid, home_type |-> home_type]
        first == write_hub(d1, row, TRUE)
        second == write_hub(d1, row, FALSE)
    IN  IF first.ok THEN [db |-> first.db, ret |-> TRUE]
        ELSE IF second.ok THEN [db |-> second.db, ret |-> TRUE]
        ELSE [db |-> d1, ret |-> FALSE]

\* a plausible slip: the hub's stored devices are cleared when one is written
add_device_refreshing_hub(d, device_id, hub_code, device_type, status) ==
    LET row == [device_id |-> device_id, hub_code |-> hub_code,
                device_type |-> device_type, status |-> IF status THEN 1 ELSE 0]
    IN  IF hub_code \in HubCodes(d)
        THEN [db |-> [d EXCEPT !.devices = {x \in @ : x.hub_code # hub_code} \cup {row}],
              ret |-> TRUE]
        ELSE [db |-> d, ret |-> FALSE]

add_device(d, device_id, hub_code, device_type, status) ==
    LET row == [device_id |-> device_id, hub_code |-> hub_code,
                device_type |-> device_type, status |-> IF status THEN 1 ELSE 0]
        fk_ok == hub_code \in HubCodes(d)
    IN  IF fk_ok
        THEN [db |-> [d EXCEPT !.devices = {x \in @ : x.device_id # device_id} \cup {row}],
              ret |-> TRUE]
        ELSE [db |-> d, ret |-> FALSE]

\* devs is the list of device ids. INSERT OR REPLACE deletes the old rooms row,
\* and with it (ON DELETE CASCADE) its room_devices rows; INSERT OR IGNORE does
\* not ignore a foreign-key failure, which rolls the whole call back.
add_room(d, room_id, room_name, hub_code, devs) ==
    LET row == [room_id |-> room_id, room_name |-> room_name,
                hub_code |-> hub_code, device_count |-> Len(devs)]
        ids == {devs[n] : n \in 1..Len(devs)}
        existed == \E r \in d.rooms : r.room_id = room_id
        kept == {x \in d.room_devices : x.room_id # room_id}
        after_replace == IF existed THEN kept ELSE d.room_devices
        fk_ok == \A id \in ids : \E x \in d.devices : x.device_id = id
        links == IF devs # <<>>
                 THEN kept \cup {[room_id |-> room_id, device_id |-> id] : id \in ids}
                 ELSE after_replace
    IN  IF hub_code \notin HubCodes(d) THEN [db |-> d, ret |-> FALSE]
        ELSE IF devs # <<>> /\ ~fk_ok THEN [db |-> d, ret |-> FALSE]
        ELSE [db |-> [d EXCEPT !.rooms = {r \in @ : r.room_id # room_id} \cup {row},
                               !.room_devices = links],
              ret |-> TRUE]

\* the row of an INSERT OR REPLACE INTO energy_daily: no column of the statement
\* is a key, so the row always gets a fresh id
energy_row(d, date_str, user_id, hub_code, device_id, device_type, energy_kwh, usage_hours) ==
    [id |-> NextId(d), date |-> date_str, user_id |-> user_id, hub_code |-> hub_code,
     device_id |-> device_id, device_type |-> device_type,
     energy_kwh |-> energy_kwh, usage_hours |-> usage_hours]

store_daily_energy(d, date_str, user_id, hub_code, device_id, device_type, energy_kwh, usage_hours) ==
    LET row == energy_row(d, date_str, user_id, hub_code, device_id, device_type,
                          energy_kwh, usage_hours)
    IN  IF hub_code \in HubCodes(d)
        THEN [db |-> [d EXCEPT !.energy_daily = @ \cup {row}], ret |-> TRUE]
        ELSE [db |-> d, ret |-> FALSE]

\* a plausible slip: the statement also refreshes the summary's device_count
write_hub_total_counting_devices(d, date_str, user_id, hub_code, energy_kwh, usage_hours, fk) ==
    LET row == energy_row(d, date_str, user_id, hub_code, NULL, hub_total,
                          energy_kwh, usage_hours)
        summary == [hub_code |-> hub_code, user_id |-> user_id,
                    daily_energy |-> energy_kwh, weekly_energy |-> 0,
                    monthly_energy |-> 0, yearly_energy |-> 0,
                    device_count |-> Cardinality({x \in d.devices : x.hub_code = hub_code})]
        ok == fk => hub_code \in HubCodes(d)
    IN  [ok |-> ok,
         db |-> IF ok
                THEN [d EXCEPT !.energy_daily = @ \cup {row},
                               !.hub_summary = {x \in @ : x.hub_code # hub_code}
                                               \cup {summary}]
                ELSE d]

\* the two statements of store_hub_daily_total under PRAGMA foreign_keys = fk;
\* hub_summary has hub_code as PRIMARY KEY, so its row is replaced and the
\* columns the statement does not name take their defaults
write_hub_total(d, date_str, user_id, hub_code, energy_kwh, usage_hours, fk) ==
    LET row == energy_row(d, date_str, user_id, hub_code, NULL, hub_total,
                          energy_kwh, usage_hours)
        summary == [hub_code |-> hub_code, user_id |-> user_id,
                    daily_energy |-> energy_kwh, weekly_energy |-> 0,
                    monthly_energy |-> 0, yearly_energy |-> 0, device_count |-> 0]
        ok == fk => hub_code \in HubCodes(d)
    IN  [ok |-> ok,
         db |-> IF ok
                THEN [d EXCEPT !.energy_daily = @ \cup {row},
                               !.hub_summary = {x \in @ : x.hub_code # hub_code}
                                               \cup {summary}]
                ELSE d]

store_hub_daily_total(d, date_str, user_id, hub_code, energy_kwh) ==
    LET d1 == add_user(d, user_id).db
        first == write_hub_total(d1, date_str, user_id, hub_code, energy_kwh, 24, TRUE)
        second == write_hub_total(d1, date_str, user_id, hub_code, energy_kwh, 24, FALSE)
    IN  IF first.ok THEN [db |-> first.db, ret |-> TRUE]
        ELSE IF second.ok THEN [db |-> second.db, ret |-> TRUE]
        ELSE [db |-> d1, ret |-> FALSE]


-----------------------------------------------------------------------------
(* DeviceDataManager: the remote store client *)

\* get_all_hubs: every document of userHubs, with its document id as hubId
get_all_hubs(r) ==
    [n \in 1..Len(r.userHubs) |->
        [k \in DOMAIN r.userHubs[n].data \cup {"hubId"} |->
            IF k = "hubId" THEN r.userHubs[n].id ELSE r.userHubs[n].data[k]]]

\* query_collection("devices", "hubCode", "==", hub_code)
get_devices_by_hub_code(r, hub_code) ==
    SelectSeq(r.devices, LAMBDA doc : "hubCode" \in DOMAIN doc /\ doc.hubCode = hub_code)

unknown == <<"u","n","k","n","o","w","n">>

\* the devices document whose id is device_id, or <<>> when there is none; the
\* id of a devices document is its deviceId
get_device_by_id(r, device_id) ==
    SelectSeq(r.devices, LAMBDA doc : "deviceId" \in DOMAIN doc /\ doc.deviceId = device_id)

\* the device_details get_rooms_by_hub_code builds from a room's devices list:
\* the deviceType of every listed device that has a document
RECURSIVE device_details(_, _)
device_details(r, items) ==
    IF items = <<>> THEN <<>>
    ELSE LET item == Head(items)
             id == IF item.type = "str" THEN item.value ELSE get(item.value, "deviceId", "")
             found == IF id = "" THEN <<>> ELSE get_device_by_id(r, id)
         IN  (IF found = <<>> THEN <<>>
              ELSE <<[device_type |-> get(found[1], "deviceType", unknown)]>>)
             \o device_details(r, Tail(items))

\* query_collection("rooms", "hubCode", "==", hub_code), each room with the
\* device_details and device_count added to it
get_rooms_by_hub_code(r, hub_code) ==
    LET found == SelectSeq(r.rooms, LAMBDA doc : "hubCode" \in DOMAIN doc
                                                 /\ doc.hubCode = hub_code)
        detailed(room) ==
            LET details == device_details(r, get(room, "devices", <<>>))
            IN  [device_details |-> details, device_count |-> Len(details)] @@ room
    IN  [n \in 1..Len(found) |-> detailed(found[n])]

-----------------------------------------------------------------------------
(* EnergyCalculator *)


\* the locals fetch_and_store_all_data extracts from a hub document
hub_id_of(hub) == get(hub, "hubId", "unknown")
hub_code_of(hub) == get(hub, "hubCode", hub_id_of(hub))
user_id_of(hub) == get(hub, "userId", "")
home_type_of(hub) == get(hub, "homeType", "")

\* a plausible slip: only a missing userId is taken for dormant, not an empty one
dormant_if_absent(hub) == "userId" \notin DOMAIN hub

\* "if not user_id": the hub is skipped
dormant(hub) == user_id_of(hub) = ""

\* a plausible slip: only the str items of a room's devices are taken
RECURSIVE device_ids_str_only(_)
device_ids_str_only(items) ==
    IF items = <<>> THEN <<>>
    ELSE (IF Head(items).type = "str" THEN <<Head(items).value>> ELSE <<>>)
         \o device_ids_str_only(Tail(items))

\* the device-id list fetch_and_store_all_data builds from a room's devices:
\* a str item is an id, a dict item gives its deviceId when it has one
RECURSIVE device_ids(_)
device_ids(items) ==
    IF items = <<>> THEN <<>>
    ELSE LET item == Head(items)
             id == IF item.type = "dict" THEN get(item.value, "deviceId", "") ELSE ""
         IN  (IF item.type = "str" THEN <<item.value>>
              ELSE IF item.type = "dict" /\ id # "" THEN <<id>>
              ELSE <<>>) \o device_ids(Tail(items))

\* a plausible slip: door is left out of the 24-hour class
usage_hours_no_door(device_type) ==
    IF device_type \in {<<"t","h","e","r","m","o","s","t","a","t">>,
                        <<"s","m","a","r","t","d","o","o","r">>}
    THEN 24 ELSE 10

\* hours a device that is on is assumed to have run
usage_hours(device_type) ==
    IF device_type \in {<<"t","h","e","r","m","o","s","t","a","t">>,
                        <<"d","o","o","r">>,
                        <<"s","m","a","r","t","d","o","o","r">>}
    THEN 24 ELSE 10

\* ENERGY_RATES.get(device_type, 0.0)
rate_of(device_type) ==
    IF device_type \in DOMAIN ENERGY_RATES THEN ENERGY_RATES[device_type] ELSE 0

\* a plausible slip: the status is not looked at
device_energy_ignoring_status(device) ==
    LET device_type == lower(get(device, "deviceType", unknown))
    IN  [device_type |-> device_type,
         energy |-> rate_of(device_type) * usage_hours(device_type),
         hours |-> usage_hours(device_type)]

\* one iteration of the device loop of _calculate_and_store_daily_energy, up
\* to the call of store_daily_energy
device_energy(device) ==
    LET device_type == lower(get(device, "deviceType", unknown))
        status == get(device, "on", FALSE)
    IN  IF ~status
        THEN [device_type |-> device_type, energy |-> 0, hours |-> 0]
        ELSE [device_type |-> device_type,
              energy |-> rate_of(device_type) * usage_hours(device_type),
              hours |-> usage_hours(device_type)]

\* a plausible slip: the total is overwritten, not accumulated
add_to_total_overwrite(total_energy, energy) == energy

\* total_energy += energy
add_to_total(total_energy, energy) == total_energy + energy

\* the row counts of the tables
Counts(d) ==
    [users |-> Cardinality(d.users), hubs |-> Cardinality(d.hubs),
     devices |-> Cardinality(d.devices), rooms |-> Cardinality(d.rooms),
     room_devices |-> Cardinality(d.room_devices),
     energy_daily |-> Cardinality(d.energy_daily),
     hub_summary |-> Cardinality(d.hub_summary)]

NoCalc == [hub_code |-> "", user_id |-> "", today |-> 0, total_energy |-> 0]
NoRun == [done |-> {}, days |-> {}]

\* no second pass is in progress
NoPeer ==
    [pc |-> "idle", hubs |-> <<>>, i |-> 0, devices |-> <<>>, rooms |-> <<>>, j |-> 0,
     calc |-> NoCalc, run |-> NoRun, seen |-> 0, overlap |-> FALSE, switches |-> 0]

\* run_scheduler was not called
NoSched == [at |-> "off", poll_interval |-> 60, done |-> 0, interrupted |-> FALSE]

\* fetch_and_store_all_data returns: the pass is recorded and its locals die
EndPass(ret, listed, failed_at, d) ==
    /\ pc' = "idle"
    /\ passes' = Append(passes, [ret |-> ret, listed |-> listed, failed_at |-> failed_at,
                                 done |-> run.done, days |-> run.days,
                                 counts |-> Counts(d)])
    /\ hubs' = <<>> /\ i' = 0 /\ devices' = <<>> /\ rooms' = <<>> /\ j' = 0
    /\ calc' = NoCalc /\ run' = NoRun

\* an exception reaches the except clause of fetch_and_store_all_data
Abort(what) ==
    /\ EndPass(FALSE, TRUE, i, db)
    /\ last' = [op |-> what, ok |-> FALSE]
    /\ UNCHANGED <<db, remote, clock, calls, peer, sched>>

\* a fetch of the remote store raises
FetchFails(what) ==
    /\ failures < MaxFailures
    /\ failures' = failures + 1
    /\ Abort(what)

\* line 44: get_all_hubs
StartPass ==
    /\ pc = "idle"
    /\ Len(passes) < MaxPasses
    /\ \/ /\ hubs' = get_all_hubs(remote)
          /\ i' = 1
          /\ pc' = "hubs"
          /\ run' = NoRun
          /\ last' = [op |-> "get_all_hubs", ok |-> TRUE]
          /\ UNCHANGED <<db, remote, clock, devices, rooms, j, calc, passes, failures, calls, peer, sched>>
       \/ /\ failures < MaxFailures
          /\ failures' = failures + 1
          /\ EndPass(FALSE, FALSE, 0, db)
          /\ last' = [op |-> "get_all_hubs", ok |-> FALSE]
          /\ UNCHANGED <<db, remote, clock, calls, peer, sched>>

\* lines 56-58: a hub without user is skipped
SkipDormantHub ==
    /\ pc = "hubs"
    /\ i <= Len(hubs)
    /\ dormant(hubs[i])
    /\ i' = i + 1
    /\ last' = [op |-> "skip", hub |-> hubs[i]]
    /\ UNCHANGED <<db, remote, clock, pc, hubs, devices, rooms, j, calc, run, passes,
                   failures, calls, peer, sched>>

\* line 63: add_hub
StoreHub ==
    /\ pc = "hubs"
    /\ i <= Len(hubs)
    /\ ~dormant(hubs[i])
    /\ LET hub == hubs[i]
           r == add_hub(db, hub_id_of(hub), hub_code_of(hub), user_id_of(hub),
                        home_type_of(hub))
       IN  /\ db' = r.db
           /\ last' = [op |-> "add_hub", hub |-> hub, ret |-> r.ret]
    /\ pc' = "fetch_devices"
    /\ UNCHANGED <<remote, clock, hubs, i, devices, rooms, j, calc, run, passes,
                   failures, calls, peer, sched>>

\* line 66: get_devices_by_hub_code
FetchDevices ==
    /\ pc = "fetch_devices"
    /\ \/ /\ devices' = get_devices_by_hub_code(remote, hub_code_of(hubs[i]))
          /\ j' = 1
          /\ pc' = "devices"
          /\ last' = [op |-> "get_devices_by_hub_code", ok |-> TRUE]
          /\ UNCHANGED <<db, remote, clock, hubs, i, rooms, calc, run, passes,
                         failures, calls, peer, sched>>
       \/ FetchFails("get_devices_by_hub_code")

\* lines 70-78: one iteration of the device loop; a deviceType that is not a
\* string has no lower()
StoreDevice ==
    /\ pc = "devices"
    /\ j <= Len(devices)
    /\ LET device == devices[j]
           device_id == get(device, "deviceId", "unknown")
           raw_type == get(device, "deviceType", unknown)
           status == get(device, "on", FALSE)
       IN  IF raw_type = None
           THEN Abort("device") /\ UNCHANGED failures
           ELSE LET r == add_device(db, device_id, hub_code_of(hubs[i]),
                                    lower(raw_type), status)
                IN  /\ db' = r.db
                    /\ j' = j + 1
                    /\ last' = [op |-> "add_device", device |-> device, ret |-> r.ret]
                    /\ UNCHANGED <<remote, clock, pc, hubs, i, devices, rooms, calc,
                                   run, passes, failures, calls, peer, sched>>

\* line 81: get_rooms_by_hub_code, after the last device
FetchRooms ==
    /\ pc = "devices"
    /\ j > Len(devices)
    /\ \/ /\ rooms' = get_rooms_by_hub_code(remote, hub_code_of(hubs[i]))
          /\ j' = 1
          /\ pc' = "rooms"
          /\ last' = [op |-> "get_rooms_by_hub_code", ok |-> TRUE]
          /\ UNCHANGED <<db, remote, clock, hubs, i, devices, calc, run, passes,
                         failures, calls, peer, sched>>
       \/ FetchFails("get_rooms_by_hub_code")

\* lines 85-102: one iteration of the room loop
StoreRoom ==
    /\ pc = "rooms"
    /\ j <= Len(rooms)
    /\ LET room == rooms[j]
           room_id == get(room, "roomId", "unknown")
           room_name == get(room, "roomName", room_id)
           ids == device_ids(get(room, "devices", <<>>))
           r == add_room(db, room_id, room_name, hub_code_of(hubs[i]), ids)
       IN  /\ db' = r.db
           /\ last' = [op |-> "add_room", room |-> room, ids |-> ids, ret |-> r.ret]
    /\ j' = j + 1
    /\ UNCHANGED <<remote, clock, pc, hubs, i, devices, rooms, calc, run, passes,
                   failures, calls, peer, sched>>

\* lines 105, 122-133: _calculate_and_store_daily_energy is entered; the wall
\* clock is read, and may have moved on since it was last read
BeginDerive ==
    /\ pc = "rooms"
    /\ j > Len(rooms)
    /\ \E day \in clock..MaxDay :
          /\ clock' = day
          /\ LET hub == hubs[i]
                 hub_code == get(hub, "hubCode", "unknown")
                 user_id == get(hub, "userId", user_(hub_code))
             IN  calc' = [hub_code |-> hub_code,
                          user_id |-> IF user_id = "" THEN user_(hub_code) ELSE user_id,
                          today |-> day,
                          total_energy |-> 0]
    /\ j' = 1
    /\ pc' = "derive"
    /\ last' = [op |-> "now"]
    /\ UNCHANGED <<db, remote, hubs, i, devices, rooms, run, passes, failures, calls, peer, sched>>

\* lines 135-167: one iteration of the device loop of the derivation
DeriveDevice ==
    /\ pc = "derive"
    /\ j <= Len(devices)
    /\ LET device == devices[j]
           e == device_energy(device)
           r == store_daily_energy(db, calc.today, calc.user_id, calc.hub_code,
                                   get(device, "deviceId", "unknown"),
                                   e.device_type, e.energy, e.hours)
       IN  /\ db' = r.db
           /\ calc' = [calc EXCEPT !.total_energy = add_to_total(@, e.energy)]
           /\ last' = [op |-> "store_daily_energy", device |-> device,
                       energy |-> e.energy, hours |-> e.hours,
                       device_type |-> e.device_type, ret |-> r.ret]
    /\ j' = j + 1
    /\ UNCHANGED <<remote, clock, pc, hubs, i, devices, rooms, run, passes,
                   failures, calls, peer, sched>>

\* lines 169-174: the hub total, after the last device; the next hub follows
StoreHubTotal ==
    /\ pc = "derive"
    /\ j > Len(devices)
    /\ LET r == store_hub_daily_total(db, calc.today, calc.user_id, calc.hub_code,
                                      calc.total_energy)
       IN  /\ db' = r.db
           /\ last' = [op |-> "store_hub_daily_total", hub |-> hubs[i],
                       hub_code |-> calc.hub_code, today |-> calc.today, ret |-> r.ret]
    /\ run' = [done |-> run.done \cup {i}, days |-> run.days \cup {calc.today}]
    /\ i' = i + 1
    /\ pc' = "hubs"
    /\ UNCHANGED <<remote, clock, hubs, devices, rooms, j, calc, passes, failures, calls, peer, sched>>

\* lines 107-108: after the last hub the pass returns True
FinishPass ==
    /\ pc = "hubs"
    /\ i > Len(hubs)
    /\ EndPass(TRUE, TRUE, 0, db)
    /\ last' = [op |-> "return", ok |-> TRUE]
    /\ UNCHANGED <<db, remote, clock, failures, calls, peer, sched>>


-----------------------------------------------------------------------------
(* The remote snapshots the passes are run against *)

\* an item of a room's devices list: a bare id, or an object
Str(id) == [type |-> "str", value |-> id]
Dict(doc) == [type |-> "dict", value |-> doc]

Hub1Docs ==
    {[hubCode |-> "A", userId |-> "u1", homeType |-> "tenant"],
     [hubCode |-> "A", userId |-> "", homeType |-> "tenant"],
     [userId |-> "u1", homeType |-> "tenant"]}

Hub2Docs ==
    {[hubCode |-> "B", userId |-> "u2", homeType |-> "tenant"],
     [hubCode |-> "B", homeType |-> "admin"]}

Device1Docs ==
    {[deviceId |-> "d1", hubCode |-> "A", deviceType |-> <<"L","i","g","h","t">>, on |-> b] :
        b \in BOOLEAN}
    \cup {[deviceId |-> "d1", hubCode |-> "h1", deviceType |-> <<"L","i","g","h","t">>,
           on |-> TRUE]}

Device2Docs ==
    {[deviceId |-> "d2", hubCode |-> c,
      deviceType |-> <<"t","h","e","r","m","o","s","t","a","t">>, on |-> TRUE] :
        c \in {"A", "B"}}
    \cup {[deviceId |-> "d2", hubCode |-> "A", deviceType |-> None, on |-> TRUE],
          [hubCode |-> "B", deviceType |-> <<"F","a","n">>]}

RoomLists ==
    {<<>>,
     <<[roomId |-> "r1", roomName |-> "Den", hubCode |-> "A",
        devices |-> <<Str("d1"), Str("d2")>>],
       [roomId |-> "r2", roomName |-> "Hall", hubCode |-> "A",
        devices |-> <<Dict([deviceId |-> "d1", deviceName |-> "lamp"]),
                      Dict([deviceId |-> "d2"])>>]>>,
     <<[roomId |-> "r1", hubCode |-> "A"]>>}

\* snapshots that vary the shape of the hub, device and room documents
StructSnapshots ==
    {[userHubs |-> <<[id |-> "h1", data |-> a], [id |-> "h2", data |-> b]>>,
      devices |-> <<x, y>>,
      rooms |-> rs] :
        a \in Hub1Docs, b \in Hub2Docs, x \in Device1Docs, y \in Device2Docs,
        rs \in RoomLists}

\* the keys of the rating table, spellings of them in other letter case, and
\* types the table does not know
DeviceTypes ==
    DOMAIN ENERGY_RATES
    \cup {<<"L","i","g","h","t">>, <<"L","I","G","H","T">>,
          <<"T","h","e","r","m","o","s","t","a","t">>, <<"D","O","O","R">>,
          <<"S","m","a","r","t","D","o","o","r">>, <<"A","C">>, <<"T","v">>,
          <<"g","i","z","m","o">>, <<"H","e","a","t","e","r">>}

\* snapshots that vary the type and the on-status of one device
TypeSnapshots ==
    {[userHubs |-> <<[id |-> "h1", data |-> [hubCode |-> "A", userId |-> "u1",
                                             homeType |-> "tenant"]],
                     [id |-> "h2", data |-> [hubCode |-> "B", userId |-> "",
                                             homeType |-> "tenant"]]>>,
      devices |-> <<x, [deviceId |-> "d2", hubCode |-> "A",
                        deviceType |-> <<"f","a","n">>, on |-> TRUE]>>,
      rooms |-> <<>>] :
        x \in {[deviceId |-> "d1", hubCode |-> "A", deviceType |-> t, on |-> b] :
                  t \in DeviceTypes, b \in BOOLEAN}
              \cup {[deviceId |-> "d1", hubCode |-> "A", deviceType |-> t] :
                  t \in {<<"t","h","e","r","m","o","s","t","a","t">>, <<"T","v">>,
                          <<"g","i","z","m","o">>}}}

Snapshots == StructSnapshots \cup TypeSnapshots

NoSnapshot == [userHubs |-> <<>>, devices |-> <<>>, rooms |-> <<>>]

-----------------------------------------------------------------------------
(* The synchronisation passes *)

\* EnergyCalculator() on a fresh database file
Start(r) ==
    /\ db = EmptyDb
    /\ remote = r
    /\ clock = 1
    /\ pc = "idle"
    /\ hubs = <<>> /\ i = 0 /\ devices = <<>> /\ rooms = <<>> /\ j = 0
    /\ calc = NoCalc /\ run = NoRun
    /\ passes = <<>>
    /\ failures = 0
    /\ calls = 0
    /\ peer = NoPeer
    /\ sched = NoSched
    /\ last = [op |-> "init"]

Init == \E r \in Snapshots : Start(r)

Next ==
    \/ StartPass
    \/ SkipDormantHub
    \/ StoreHub
    \/ FetchDevices
    \/ StoreDevice
    \/ FetchRooms
    \/ StoreRoom
    \/ BeginDerive
    \/ DeriveDevice
    \/ StoreHubTotal
    \/ FinishPass

Spec == Init /\ [][Next]_vars

-----------------------------------------------------------------------------
(* Passes over a remote store that its owner edits between them *)

ChangeSnapshots ==
    {[userHubs |-> <<[id |-> "h1", data |-> [hubCode |-> "A", userId |-> "u1",
                                             homeType |-> "tenant"]],
                     [id |-> "h2", data |-> [hubCode |-> "B", userId |-> u,
                                             homeType |-> "tenant"]]>>,
      devices |-> <<[deviceId |-> "d1", hubCode |-> "A",
                     deviceType |-> <<"L","i","g","h","t">>, on |-> TRUE],
                    [deviceId |-> "d2", hubCode |-> c,
                     deviceType |-> <<"t","h","e","r","m","o","s","t","a","t">>,
                     on |-> TRUE]>>,
      rooms |-> rs] :
        u \in {"u2", ""}, c \in {"A", "B"},
        rs \in {<<>>, <<[roomId |-> "r1", roomName |-> "Den", hubCode |-> "A",
                         devices |-> <<Str("d1")>>]>>}}

\* s without its last element
Front(s) == SubSeq(s, 1, Len(s) - 1)

\* the remote store is edited only while no pass runs, and before the last pass
Editable ==
    /\ pc = "idle"
    /\ passes # <<>>
    /\ Len(passes) < MaxPasses

Edited(r) ==
    /\ remote' = r
    /\ last' = [op |-> "edit"]
    /\ UNCHANGED <<db, clock, pc, hubs, i, devices, rooms, j, calc, run, passes,
                   failures, calls, peer, sched>>

\* a userHubs document is deleted
RemoteDropsHub ==
    /\ Editable
    /\ remote.userHubs # <<>>
    /\ Edited([remote EXCEPT !.userHubs = Front(@)])

\* a devices document is deleted
RemoteDropsDevice ==
    /\ Editable
    /\ remote.devices # <<>>
    /\ Edited([remote EXCEPT !.devices = Front(@)])

\* a rooms document is deleted
RemoteDropsRoom ==
    /\ Editable
    /\ remote.rooms # <<>>
    /\ Edited([remote EXCEPT !.rooms = Front(@)])

\* the first hub gets a new hubCode; its devices and rooms documents follow
RemoteChangesHubCode ==
    /\ Editable
    /\ remote.userHubs # <<>>
    /\ get(remote.userHubs[1].data, "hubCode", "") = "A"
    /\ LET recode(doc) == IF get(doc, "hubCode", "") = "A"
                          THEN [doc EXCEPT !.hubCode = "A2"] ELSE doc
       IN  Edited([userHubs |-> [remote.userHubs EXCEPT ![1].data.hubCode = "A2"],
                   devices |-> [n \in 1..Len(remote.devices) |-> recode(remote.devices[n])],
                   rooms |-> [n \in 1..Len(remote.rooms) |-> recode(remote.rooms[n])]])

InitChange == \E r \in ChangeSnapshots : Start(r)

NextChange ==
    \/ Next
    \/ RemoteDropsHub
    \/ RemoteDropsDevice
    \/ RemoteDropsRoom
    \/ RemoteChangesHubCode

SpecChange == InitChange /\ [][NextChange]_vars

-----------------------------------------------------------------------------
(* Two passes at once: GET /refresh runs run_once in the API process while   *)
(* run_scheduler runs a pass in its own process, on one database file        *)

\* snapshots of two hubs: the room of the first hub lists a device of its own
\* hub and one of the second hub, or two of its own hub beside a second hub
\* without user
RaceSnapshots ==
    {[userHubs |-> <<[id |-> "h1", data |-> [hubCode |-> "A", userId |-> "u1",
                                             homeType |-> "tenant"]],
                     [id |-> "h2", data |-> [hubCode |-> "B", userId |-> c[2],
                                             homeType |-> "tenant"]]>>,
      devices |-> <<[deviceId |-> "d1", hubCode |-> "A",
                     deviceType |-> <<"L","i","g","h","t">>, on |-> TRUE],
                    [deviceId |-> "d2", hubCode |-> c[1],
                     deviceType |-> <<"f","a","n">>, on |-> TRUE]>>,
      rooms |-> <<[roomId |-> "r1", roomName |-> "Den", hubCode |-> "A",
                   devices |-> <<Str("d1"), Str("d2")>>]>>] :
        c \in {<<"B", "u2">>, <<"A", "">>}}

\* the operating system runs the other process. Every DatabaseManager method
\* is one transaction on a connection of its own, and SQLite lets one
\* transaction write at a time, so that the processes take turns between
\* method calls; the locals of the pass that waits are kept in peer. overlap
\* records that two passes have been in progress at once.
Switch ==
    /\ pc # "idle" \/ peer.pc # "idle"
    /\ peer.switches < MaxSwitches
    /\ peer' = [pc |-> pc, hubs |-> hubs, i |-> i, devices |-> devices, rooms |-> rooms,
                j |-> j, calc |-> calc, run |-> run, seen |-> Len(passes),
                overlap |-> \/ peer.overlap
                            \/ pc # "idle" /\ peer.pc # "idle"
                            \/ peer.pc # "idle" /\ Len(passes) > peer.seen,
                switches |-> peer.switches + 1]
    /\ pc' = peer.pc /\ hubs' = peer.hubs /\ i' = peer.i /\ devices' = peer.devices
    /\ rooms' = peer.rooms /\ j' = peer.j /\ calc' = peer.calc /\ run' = peer.run
    /\ last' = [op |-> "switch"]
    /\ UNCHANGED <<db, remote, clock, passes, failures, calls, sched>>

\* add_hub looks the hub up and then inserts or updates it. When both passes
\* look up a hub that is not stored before either inserts it, the INSERT of
\* the second fails on the primary key, with foreign keys on and again with
\* them off, and its add_hub returns False; the pass goes on.
StoreHubAtOnce ==
    /\ pc = "hubs" /\ peer.pc = "hubs"
    /\ i <= Len(hubs) /\ peer.i = i /\ peer.hubs = hubs
    /\ ~dormant(hubs[i])
    /\ \A h \in db.hubs : h.hub_id # hub_id_of(hubs[i])
    /\ db' = add_hub(db, hub_id_of(hubs[i]), hub_code_of(hubs[i]), user_id_of(hubs[i]),
                     home_type_of(hubs[i])).db
    /\ pc' = "fetch_devices"
    /\ peer' = [peer EXCEPT !.pc = "fetch_devices", !.overlap = TRUE]
    /\ last' = [op |-> "add_hub", hub |-> hubs[i], ret |-> FALSE]
    /\ UNCHANGED <<remote, clock, hubs, i, devices, rooms, j, calc, run, passes,
                   failures, calls, sched>>

\* add_device looks the device up and then inserts or updates it. When both
\* passes look up a device that is not stored before either inserts it, the
\* INSERT of the second fails on the primary key and its add_device returns
\* False; the pass goes on.
StoreDeviceAtOnce ==
    /\ pc = "devices" /\ peer.pc = "devices"
    /\ j <= Len(devices) /\ peer.j = j /\ peer.devices = devices
    /\ get(devices[j], "deviceType", unknown) # None
    /\ \A x \in db.devices : x.device_id # get(devices[j], "deviceId", "unknown")
    /\ db' = add_device(db, get(devices[j], "deviceId", "unknown"), hub_code_of(hubs[i]),
                        lower(get(devices[j], "deviceType", unknown)),
                        get(devices[j], "on", FALSE)).db
    /\ j' = j + 1
    /\ peer' = [peer EXCEPT !.j = @ + 1, !.overlap = TRUE]
    /\ last' = [op |-> "add_device", device |-> devices[j], ret |-> FALSE]
    /\ UNCHANGED <<remote, clock, pc, hubs, i, devices, rooms, calc, run, passes,
                   failures, calls, sched>>

\* the two passes run within one day, and the remote store answers every
\* fetch: a pass that a failed fetch aborts writes less, and is not one of
\* the two complete passes whose writes are compared
InitRace ==
    \E r \in RaceSnapshots :
        /\ db = EmptyDb
        /\ remote = r
        /\ clock = MaxDay
        /\ pc = "idle"
        /\ hubs = <<>> /\ i = 0 /\ devices = <<>> /\ rooms = <<>> /\ j = 0
        /\ calc = NoCalc /\ run = NoRun
        /\ passes = <<>>
        /\ failures = MaxFailures
        /\ calls = 0
        /\ peer = NoPeer
        /\ sched = NoSched
        /\ last = [op |-> "init"]

NextRace ==
    \/ Next
    \/ Switch
    \/ StoreHubAtOnce
    \/ StoreDeviceAtOnce

SpecRace == InitRace /\ [][NextRace]_vars

-----------------------------------------------------------------------------
(* run_scheduler: a pass, a sleep of poll_interval minutes, and again *)

\* values of --interval: the parser takes any integer
PollIntervals == {-1, 0, 1, 60}

\* line 183: the loop is in fetch_and_store_all_data, which has not returned
RunPass ==
    /\ sched.at = "pass"
    /\ Len(passes) = sched.done
    /\ Next

\* lines 184-191: the pass has returned, its result is logged whatever it is,
\* and time.sleep is called. time.sleep raises ValueError for a negative
\* length, which the except clause of line 195 catches: the loop is left
Sleep ==
    /\ sched.at = "pass"
    /\ pc = "idle"
    /\ Len(passes) = sched.done + 1
    /\ sched' = [sched EXCEPT !.at = IF sched.poll_interval * 60 < 0
                                      THEN "stopped" ELSE "sleep",
                              !.done = Len(passes)]
    /\ last' = [op |-> "sleep", ok |-> sched.poll_interval * 60 >= 0]
    /\ UNCHANGED <<db, remote, clock, pc, hubs, i, devices, rooms, j, calc, run, passes,
                   failures, calls, peer>>

\* time.sleep returns and the loop goes round
Wake ==
    /\ sched.at = "sleep"
    /\ Len(passes) < MaxPasses
    /\ sched' = [sched EXCEPT !.at = "pass"]
    /\ last' = [op |-> "wake"]
    /\ UNCHANGED <<db, remote, clock, pc, hubs, i, devices, rooms, j, calc, run, passes,
                   failures, calls, peer>>

\* lines 193-194: KeyboardInterrupt, in the pass or in the sleep. No except
\* clause of the pass catches it; the transaction in progress is rolled back
Interrupt ==
    /\ sched.at \in {"pass", "sleep"}
    /\ sched' = [sched EXCEPT !.at = "stopped", !.interrupted = TRUE]
    /\ pc' = "idle"
    /\ hubs' = <<>> /\ i' = 0 /\ devices' = <<>> /\ rooms' = <<>> /\ j' = 0
    /\ calc' = NoCalc /\ run' = NoRun
    /\ last' = [op |-> "interrupt"]
    /\ UNCHANGED <<db, remote, clock, passes, failures, calls, peer>>

\* EnergyCalculator(poll_interval).run_scheduler() on a fresh database file
InitSched ==
    \E r \in RaceSnapshots, p \in PollIntervals :
        /\ db = EmptyDb
        /\ remote = r
        /\ clock = 1
        /\ pc = "idle"
        /\ hubs = <<>> /\ i = 0 /\ devices = <<>> /\ rooms = <<>> /\ j = 0
        /\ calc = NoCalc /\ run = NoRun
        /\ passes = <<>>
        /\ failures = 0
        /\ calls = 0
        /\ peer = NoPeer
        /\ sched = [at |-> "pass", poll_interval |-> p, done |-> 0, interrupted |-> FALSE]
        /\ last = [op |-> "init"]

NextSched ==
    \/ RunPass
    \/ Sleep
    \/ Wake
    \/ Interrupt

\* the process runs on: a statement that is reached completes, a fetch
\* returns or raises, and a sleep ends. Nothing makes an interrupt arrive
SpecSched ==
    /\ InitSched
    /\ [][NextSched]_vars
    /\ WF_vars(RunPass)
    /\ WF_vars(Sleep)
    /\ WF_vars(Wake)

-----------------------------------------------------------------------------
(* The read queries of DatabaseManager, called between passes *)

\* the largest limit a caller passes (the route accepts 1 to 20)
MaxLimit == 2

\* energy_weekly, energy_monthly and energy_yearly are created by
\* _create_database and no statement of the program inserts into them
energy_weekly == {}
energy_monthly == {}
energy_yearly == {}

Periods == {"daily", "weekly", "monthly", "yearly"}

\* the rows the daily query of get_top_consumers selects: energy_daily joined
\* to devices on device_id and to hubs on hub_code
TopRows(d, now, user_id) ==
    {ed \in d.energy_daily :
        /\ ed.user_id = user_id
        /\ ed.date = now
        /\ ed.device_id # NULL
        /\ \E dv \in d.devices : dv.device_id = ed.device_id
        /\ \E h \in d.hubs : h.hub_code = ed.hub_code}

\* the dictionary get_top_consumers builds from a selected row
TopConsumer(d, ed) ==
    LET dv == CHOOSE x \in d.devices : x.device_id = ed.device_id
        h == CHOOSE x \in d.hubs : x.hub_code = ed.hub_code
    IN  [device_id |-> ed.device_id, device_type |-> ed.device_type,
         hub_code |-> ed.hub_code, energy_kwh |-> ed.energy_kwh,
         status |-> (dv.status # 0), home_type |-> h.home_type, unit |-> "kWh"]

\* ORDER BY energy_kwh DESC LIMIT limit over the rows M: the lists SQLite may
\* return, rows of equal energy coming in either order
OrderedDesc(M, limit) ==
    LET k == IF limit < Cardinality(M) THEN limit ELSE Cardinality(M)
    IN  {f \in [1..k -> M] :
            /\ \A n, m \in 1..k : n < m => (f[n] # f[m] /\ f[n].energy_kwh >= f[m].energy_kwh)
            /\ \A x \in M : (\A n \in 1..k : f[n] # x)
                               => \A n \in 1..k : f[n].energy_kwh >= x.energy_kwh}

\* a plausible slip: the daily query does not restrict the date
get_top_consumers_any_date(d, now, user_id, time_period, limit) ==
    IF time_period = "daily"
    THEN LET M == UNION {TopRows(d, day, user_id) : day \in 1..now}
         IN  {[n \in DOMAIN f |-> TopConsumer(d, f[n])] : f \in OrderedDesc(M, limit)}
    ELSE {<<>>}

\* the lists get_top_consumers may return when the date is now
get_top_consumers(d, now, user_id, time_period, limit) ==
    IF time_period = "daily"
    THEN {[n \in DOMAIN f |-> TopConsumer(d, f[n])] :
             f \in OrderedDesc(TopRows(d, now, user_id), limit)}
    ELSE {<<>>}

\* str.upper(), one character
upper_char(c) ==
    IF \E n \in 1..Len(LowerCase) : LowerCase[n] = c
    THEN Upper[CHOOSE n \in 1..Len(LowerCase) : LowerCase[n] = c]
    ELSE c

\* str.capitalize()
capitalize(s) == [n \in 1..Len(s) |-> IF n = 1 THEN upper_char(s[n]) ELSE lower_char(s[n])]

Unknown == <<"U","n","k","n","o","w","n">>

\* time_multiplier of a period in the simulated hub view
time_multiplier(period) ==
    CASE period = "daily" -> 1
      [] period = "weekly" -> 7
      [] period = "monthly" -> 30
      [] OTHER -> 365

\* a plausible slip: the multiplier is applied to the first device only
RECURSIVE calculate_room_energy_first_only(_, _)
calculate_room_energy_first_only(room_devices, multiplier) ==
    IF room_devices = <<>> THEN 0
    ELSE LET device_type == lower(Head(room_devices).device_type)
             rate == IF device_type \in DOMAIN ENERGY_RATES
                     THEN ENERGY_RATES[device_type] ELSE 0
             hours == IF device_type \in {<<"t","h","e","r","m","o","s","t","a","t">>,
                                          <<"d","o","o","r">>,
                                          <<"s","m","a","r","t","d","o","o","r">>}
                      THEN 24 ELSE 10
         IN  rate * hours * multiplier
             + calculate_room_energy_first_only(Tail(room_devices), 1)

\* calculate_room_energy: room_devices is a list of dicts with device_type
RECURSIVE calculate_room_energy(_, _)
calculate_room_energy(room_devices, multiplier) ==
    IF room_devices = <<>> THEN 0
    ELSE LET device_type == lower(Head(room_devices).device_type)
             rate == IF device_type \in DOMAIN ENERGY_RATES
                     THEN ENERGY_RATES[device_type] ELSE 0
             hours == IF device_type \in {<<"t","h","e","r","m","o","s","t","a","t">>,
                                          <<"d","o","o","r">>,
                                          <<"s","m","a","r","t","d","o","o","r">>}
                      THEN 24 ELSE 10
         IN  rate * hours * multiplier
             + calculate_room_energy(Tail(room_devices), multiplier)

\* query_collection("userHubs", "hubCode", "==", hub_code)
query_hubs(r, hub_code) ==
    LET found == SelectSeq(r.userHubs, LAMBDA h : "hubCode" \in DOMAIN h.data
                                                  /\ h.data.hubCode = hub_code)
    IN  [n \in 1..Len(found) |-> found[n].data]

\* the device list the simulated hub view uses for a room: the room's
\* device_details when there are any, else one entry per item of its devices
\* list, typed by the hub's devices (Unknown for an id that is not among them)
RECURSIVE typed_items(_, _)
typed_items(items, hub_devices) ==
    IF items = <<>> THEN <<>>
    ELSE LET item == Head(items)
             id == IF item.type = "str" THEN item.value ELSE get(item.value, "deviceId", "")
             mine == {n \in 1..Len(hub_devices) : get(hub_devices[n], "deviceId", "") = id}
             last_one == CHOOSE n \in mine : \A m \in mine : m <= n
             type == IF mine = {} THEN Unknown
                     ELSE capitalize(get(hub_devices[last_one], "deviceType", <<>>))
         IN  <<[device_type |-> type]>> \o typed_items(Tail(items), hub_devices)

view_room_devices(room, hub_devices) ==
    IF room.device_details # <<>> THEN room.device_details
    ELSE typed_items(get(room, "devices", <<>>), hub_devices)

\* the name under which a view lists a room: roomName, else "Room " + roomId
view_room_name(room) == get(room, "roomName", "Room " \o get(room, "roomId", ""))

\* an HTTPException raised inside a route's try block is caught by its
\* except Exception clause and raised again with status 500
Http500 == [status |-> 500]

\* the entry of a room in a period of the simulated hub view
hub_room_entry(room, room_devices, period) ==
    [energy_value |-> calculate_room_energy(room_devices, time_multiplier(period)),
     device_count |-> Len(room_devices),
     room_id |-> get(room, "roomId", "")]

\* a period of the simulated hub view: the rooms dictionary is keyed by room
\* name, so a later room replaces an earlier one of the same name, while the
\* total adds up every room
hub_period(rooms_, lists, period) ==
    LET RECURSIVE total(_)
        total(n) == IF n = 0 THEN 0
                    ELSE total(n - 1)
                         + calculate_room_energy(lists[n], time_multiplier(period))
        newest(name) == CHOOSE n \in 1..Len(rooms_) :
                            /\ view_room_name(rooms_[n]) = name
                            /\ \A m \in 1..Len(rooms_) :
                                   view_room_name(rooms_[m]) = name => m <= n
    IN  [total_energy |-> total(Len(rooms_)),
         rooms |-> [name \in {view_room_name(rooms_[n]) : n \in 1..Len(rooms_)} |->
                       hub_room_entry(rooms_[newest(name)], lists[newest(name)], period)]]

\* the response of the simulated hub view for a tenant hub with rooms and
\* devices; a device type that is not a string fails the request
hub_response(hub_code, home_type, now, rooms_, devices_, lists) ==
    IF \/ \E n \in 1..Len(devices_) : get(devices_[n], "deviceType", <<>>) = None
       \/ \E n \in 1..Len(lists) : \E m \in 1..Len(lists[n]) : lists[n][m].device_type = None
    THEN Http500
    ELSE [status |-> 200, hub_id |-> hub_code, hub_type |-> home_type, date |-> now,
          energy_data |-> [period \in Periods |-> hub_period(rooms_, lists, period)]]

\* the device lists of the rooms of a hub
room_lists(rooms_, devices_) ==
    [n \in 1..Len(rooms_) |-> view_room_devices(rooms_[n], devices_)]

\* get_hub_energy_data when the date is now. db.get_daily_energy_by_hub is
\* not a method of DatabaseManager: the call raises AttributeError, which the
\* inner except clause logs, and no stored value replaces a simulated one.
\* (The homeType values of the snapshots are in lower case.)
get_hub_energy_data(r, now, hub_code) ==
    IF query_hubs(r, hub_code) = <<>> THEN Http500
    ELSE IF get(query_hubs(r, hub_code)[1], "homeType", "") # "tenant" THEN Http500
    ELSE IF get_rooms_by_hub_code(r, hub_code) = <<>> THEN Http500
    ELSE IF get_devices_by_hub_code(r, hub_code) = <<>> THEN Http500
    ELSE hub_response(hub_code, "tenant", now,
                      get_rooms_by_hub_code(r, hub_code),
                      get_devices_by_hub_code(r, hub_code),
                      room_lists(get_rooms_by_hub_code(r, hub_code),
                                 get_devices_by_hub_code(r, hub_code)))

\* SUM(energy_kwh) over the rows S
RECURSIVE SumEnergy(_)
SumEnergy(S) ==
    IF S = {} THEN 0
    ELSE LET x == CHOOSE y \in S : TRUE
         IN  x.energy_kwh + SumEnergy(S \ {x})

\* a room of the real hub view in the weekly, monthly and yearly periods
real_room_entry(room) ==
    [energy_value |-> 0,
     device_count |-> Len(room.device_details),
     room_id |-> get(room, "roomId", "")]

\* the response of the real hub view for a tenant hub with rooms.
\* db.get_daily_energy_by_hub is not a method of DatabaseManager: the call
\* raises AttributeError, the except clause logs it and daily_data stays None,
\* so the daily period keeps total 0 and no rooms. devices_map is assigned
\* only when daily_data is there: a room without device_details whose devices
\* list has an item reads it unassigned, and the NameError fails the request.
real_hub_response(hub_code, home_type, now, rooms_) ==
    IF \E n \in 1..Len(rooms_) :
          rooms_[n].device_details = <<>> /\ get(rooms_[n], "devices", <<>>) # <<>>
    THEN Http500
    ELSE [status |-> 200, hub_id |-> hub_code, hub_type |-> home_type, date |-> now,
          energy_data |->
              [period \in Periods |->
                  IF period = "daily"
                  THEN [total_energy |-> 0, rooms |-> <<>>]
                  ELSE [total_energy |-> 0,
                        rooms |->
                            [name \in {view_room_name(rooms_[n]) : n \in 1..Len(rooms_)} |->
                                real_room_entry(
                                    rooms_[CHOOSE n \in 1..Len(rooms_) :
                                              /\ view_room_name(rooms_[n]) = name
                                              /\ \A m \in 1..Len(rooms_) :
                                                     view_room_name(rooms_[m]) = name
                                                       => m <= n])]]]]

\* get_hub_real_energy_data when the date is now
get_hub_real_energy_data(r, now, hub_code) ==
    IF query_hubs(r, hub_code) = <<>> THEN Http500
    ELSE IF get(query_hubs(r, hub_code)[1], "homeType", "") # "tenant" THEN Http500
    ELSE IF get_rooms_by_hub_code(r, hub_code) = <<>> THEN Http500
    ELSE real_hub_response(hub_code, "tenant", now, get_rooms_by_hub_code(r, hub_code))

\* the display name of a property type
property_name(property_type) ==
    CASE property_type = "house" -> "House"
      [] property_type = "office" -> "Commercial Office"
      [] property_type = "retail" -> "Retail Space"
      [] OTHER -> "Apartment Building"

\* the name under which the admin view lists the tenant at place idx of the
\* units: its hubName, else the name of its property type and a letter
tenant_name(r, units, idx) ==
    LET found == query_hubs(r, units[idx])
        first == CHOOSE n \in 1..Len(units) :
                     units[n] = units[idx] /\ \A m \in 1..Len(units) : units[m] = units[idx] => n <= m
        given == IF found # <<>> THEN get(found[1], "hubName", "") ELSE ""
        type == IF found # <<>> THEN get(found[1], "propertyType", "apartment") ELSE "apartment"
    IN  IF given # "" THEN given
        ELSE property_name(type) \o " " \o Upper[((first - 1) % 26) + 1]

\* the response the admin view takes for a tenant: that of the real view, or
\* if the real view raises that of the simulated view, or if that raises too
\* none (tenant_data stays None)
tenant_data(r, now, tenant_hub_code) ==
    IF get_hub_real_energy_data(r, now, tenant_hub_code).status = 200
    THEN get_hub_real_energy_data(r, now, tenant_hub_code)
    ELSE IF get_hub_energy_data(r, now, tenant_hub_code).status = 200
    THEN get_hub_energy_data(r, now, tenant_hub_code)
    ELSE Http500

\* the daily energies random.uniform(20.0, 70.0) rounded to 0.01 kWh may give
SubstituteDaily == 2000..7000

\* the except clause of lines 1308-1337 runs when a statement of lines
\* 1290-1306 raises. Both views are called inside try blocks of their own,
\* and for a response of either view, or none, those statements do not raise.
ProcessingRaises(data) == FALSE

\* what a tenant adds to each period of the admin view: the totals of its
\* response, nothing when there is no response, a substitute when the
\* processing of the response raises
tenant_energy(data) ==
    IF ProcessingRaises(data)
    THEN {[listed |-> TRUE,
           energy |-> [period \in Periods |-> daily * time_multiplier(period)]] :
             daily \in SubstituteDaily}
    ELSE IF data.status = 200
    THEN {[listed |-> TRUE,
           energy |-> [period \in Periods |-> data.energy_data[period].total_energy]]}
    ELSE {[listed |-> FALSE, energy |-> [period \in Periods |-> 0]]}

\* the admin view built from what each tenant of the units adds
admin_response(r, hub_code, now, units, adds) ==
    LET RECURSIVE total(_, _)
        total(n, period) ==
            IF n = 0 THEN 0 ELSE total(n - 1, period) + adds[n].energy[period]
        names == {tenant_name(r, units, n) : n \in {m \in 1..Len(units) : adds[m].listed}}
        newest(name) == CHOOSE n \in 1..Len(units) :
                            /\ adds[n].listed /\ tenant_name(r, units, n) = name
                            /\ \A m \in 1..Len(units) :
                                   (adds[m].listed /\ tenant_name(r, units, m) = name) => m <= n
    IN  [status |-> 200, hub_id |-> hub_code, hub_type |-> "admin", date |-> now,
         energy_data |->
             [period \in Periods |->
                 [total_energy |-> total(Len(units), period),
                  tenant_hubs |->
                      [name \in names |->
                          [hub_id |-> units[newest(name)],
                           energy_value |-> adds[newest(name)].energy[period]]]]]]

\* what the tenants of the units add, one after the other
RECURSIVE tenant_adds(_, _, _)
tenant_adds(r, now, units) ==
    IF units = <<>> THEN {<<>>}
    ELSE {<<add>> \o rest : add \in tenant_energy(tenant_data(r, now, Head(units))),
                            rest \in tenant_adds(r, now, Tail(units))}

\* the responses get_admin_hub_energy_data may give when the date is now.
\* (The values are rounded to 0.01 kWh, the unit they are counted in here.)
get_admin_hub_energy_data(r, now, hub_code) ==
    IF query_hubs(r, hub_code) = <<>> THEN {Http500}
    ELSE IF get(query_hubs(r, hub_code)[1], "homeType", "") # "admin" THEN {Http500}
    ELSE {admin_response(r, hub_code, now, get(query_hubs(r, hub_code)[1], "units", <<>>), adds) :
             adds \in tenant_adds(r, now, get(query_hubs(r, hub_code)[1], "units", <<>>))}

\* str.replace(' ', '')
without_spaces(s) == SelectSeq(s, LAMBDA c : c # " ")

\* the hourly rate the room view uses for a device type: the rate of the
\* type's key, 0.05 kWh/h for a type the table does not know, and the rate of
\* two spellings the key does not cover
hourly_rate_of(device_type) ==
    LET key == without_spaces(lower(device_type))
        rate == IF key \in DOMAIN ENERGY_RATES THEN ENERGY_RATES[key] ELSE 5
    IN  IF rate = 5 /\ lower(device_type) \in
                          {<<"a","i","r"," ","c","o","n","d","i","t","i","o","n","e","r">>,
                           <<"a","i","r","-","c","o","n","d","i","t","i","o","n","e","r">>}
        THEN ENERGY_RATES[<<"a","i","r","c","o","n","d","i","t","i","o","n","e","r">>]
        ELSE IF rate = 5 /\ lower(device_type) = <<"s","m","a","r","t"," ","d","o","o","r">>
        THEN ENERGY_RATES[<<"d","o","o","r">>]
        ELSE rate

\* the daily usage hours the room view assumes for a device type
daily_hours_of(device_type) ==
    LET t == lower(device_type)
    IN  IF t \in {<<"t","h","e","r","m","o","s","t","a","t">>,
                  <<"s","m","a","r","t","d","o","o","r">>, <<"d","o","o","r">>} THEN 24
        ELSE IF t \in {<<"l","i","g","h","t">>, <<"f","a","n">>} THEN 10
        ELSE IF t \in {<<"t","v">>,
                       <<"a","i","r","c","o","n","d","i","t","i","o","n","e","r">>,
                       <<"a","c">>,
                       <<"a","i","r"," ","c","o","n","d","i","t","i","o","n","e","r">>} THEN 8
        ELSE IF t = <<"d","i","s","h","w","a","s","h","e","r">> THEN 2
        ELSE 6

\* the number of days a period of the room view stands for
days_of(period) ==
    CASE period = "daily" -> 1
      [] period = "weekly" -> 7
      [] period = "monthly" -> 30
      [] OTHER -> 365

\* the room the room view is about: the rooms row, else the first remote room
\* with that roomId among the rooms of the hubs that have a hubCode
room_details_of(d, r, room_id) ==
    LET listed == get_all_hubs(r)
        RECURSIVE all_rooms(_)
        all_rooms(n) ==
            IF n = 0 THEN <<>>
            ELSE all_rooms(n - 1)
                 \o (IF get(listed[n], "hubCode", "") # ""
                     THEN get_rooms_by_hub_code(r, listed[n].hubCode) ELSE <<>>)
        found == SelectSeq(all_rooms(Len(listed)),
                           LAMBDA room : "roomId" \in DOMAIN room /\ room.roomId = room_id)
    IN  IF \E x \in d.rooms : x.room_id = room_id
        THEN LET x == CHOOSE x \in d.rooms : x.room_id = room_id
             IN  <<[room_id |-> x.room_id, room_name |-> x.room_name, hub_code |-> x.hub_code]>>
        ELSE IF found # <<>>
        THEN <<[room_id |-> room_id,
                room_name |-> get(found[1], "roomName", "Room " \o room_id),
                hub_code |-> get(found[1], "hubCode", NULL)]>>
        ELSE <<>>

\* room_devices of the room joined to devices
RoomDeviceRows(d, room_id) ==
    {dv \in d.devices : \E rd \in d.room_devices :
                            rd.room_id = room_id /\ rd.device_id = dv.device_id}

\* devices joined to room_devices and to energy_daily, for the room and date
RealRows(d, now, room_id) ==
    {ed \in d.energy_daily :
        /\ ed.date = now
        /\ \E dv \in RoomDeviceRows(d, room_id) : dv.device_id = ed.device_id}

\* the type, hourly rate and daily hours of each device of a room
room_policy(room_devices) ==
    [id \in {dv.device_id : dv \in room_devices} |->
        LET dv == CHOOSE x \in room_devices : x.device_id = id
        IN  [device_type |-> dv.device_type,
             hourly_rate |-> hourly_rate_of(dv.device_type),
             daily_hours |-> daily_hours_of(dv.device_type)]]

\* the entries of the devices of a room for a period, from rate x hours
room_simulated(policy, period) ==
    [id \in DOMAIN policy |->
        [device_id |-> id, device_type |-> policy[id].device_type,
         energy_value |-> policy[id].hourly_rate * (policy[id].daily_hours * days_of(period)),
         usage_hours |-> policy[id].daily_hours * days_of(period),
         hourly_rate |-> policy[id].hourly_rate]]

\* a period of the room view: the entries and their total
room_period(entries) ==
    [total_energy |-> SumEnergy({[id |-> id, energy_kwh |-> entries[id].energy_value] :
                                    id \in DOMAIN entries}),
     devices |-> entries]

\* the daily period once rows of today are found: the total is the sum of
\* the rows, a device with rows takes the values of the row pick gives it
room_override(entries, real, pick) ==
    [total_energy |-> SumEnergy(real),
     devices |->
         [id \in DOMAIN entries |->
             IF id \in DOMAIN pick
             THEN [entries[id] EXCEPT
                      !.energy_value = pick[id].energy_kwh,
                      !.usage_hours = pick[id].usage_hours,
                      !.hourly_rate = IF pick[id].usage_hours > 0
                                      THEN pick[id].energy_kwh \div pick[id].usage_hours
                                      ELSE @]
             ELSE entries[id]]]

\* the responses of the room view for a room that was found
room_responses(details, policy, real, now, room_id) ==
    {[status |-> 200, room_id |-> room_id, room_name |-> details.room_name,
      hub_id |-> details.hub_code, date |-> now,
      energy_data |->
          [period \in Periods |->
              IF period = "daily" /\ real # {}
              THEN room_override(room_simulated(policy, period), real, pick)
              ELSE room_period(room_simulated(policy, period))]] :
        pick \in {f \in [{ed.device_id : ed \in real} -> real] :
                     \A id \in DOMAIN f : f[id].device_id = id}}

\* the responses get_room_energy_data may give when the date is now. The
\* values are rounded to 0.01 kWh, the unit they are counted in here. When the
\* store holds rows of today for devices of the room, a device gets the
\* values of the row of it that is fetched last: the order of the rows is
\* SQLite's choice. The stored energies are rate x hours, so that the
\* recalculated hourly rate is an exact quotient.
get_room_energy_data(d, r, now, room_id) ==
    IF room_details_of(d, r, room_id) = <<>> THEN {Http500}
    ELSE IF \E dv \in RoomDeviceRows(d, room_id) : dv.device_type = None THEN {Http500}
    ELSE room_responses(room_details_of(d, r, room_id)[1],
                        room_policy(RoomDeviceRows(d, room_id)),
                        RealRows(d, now, room_id), now, room_id)

\* a plausible slip: the daily total is summed over the device rows as well
get_energy_summary_all_rows(d, now, user_id) ==
    [user_id |-> user_id, date |-> now,
     daily_total |-> SumEnergy({x \in d.energy_daily : x.user_id = user_id /\ x.date = now}),
     weekly_total |-> 0, monthly_total |-> 0, yearly_total |-> 0,
     hubs |-> {[hub_code |-> h.hub_code, home_type |-> h.home_type] :
                  h \in {g \in d.hubs : g.user_id = user_id}},
     hub_count |-> Cardinality({g \in d.hubs : g.user_id = user_id})]

\* get_energy_summary when the date is now; the week, month and year numbers
\* of the date select from tables without rows. hubs is the list as a set.
get_energy_summary(d, now, user_id) ==
    LET total(S) == SumEnergy({x \in S : x.user_id = user_id /\ x.device_id = NULL})
        mine == {g \in d.hubs : g.user_id = user_id}
    IN  [user_id |-> user_id, date |-> now,
         daily_total |-> total({x \in d.energy_daily : x.date = now}),
         weekly_total |-> total(energy_weekly),
         monthly_total |-> total(energy_monthly),
         yearly_total |-> total(energy_yearly),
         hubs |-> {[hub_code |-> h.hub_code, home_type |-> h.home_type] : h \in mine},
         hub_count |-> Cardinality(mine)]

\* snapshots with two hubs of one user, three devices, one of them on or off,
\* and two rooms; and one with tenant hubs of two users, a light
\* alone in its room, a room that lists a device without document, a
\* television, and an admin hub whose units are the two tenants and a code
\* of no hub
ViewSnapshots ==
    {[userHubs |-> <<[id |-> "h1", data |-> [hubCode |-> "A", userId |-> "u1",
                                             homeType |-> "tenant"]],
                     [id |-> "h2", data |-> [hubCode |-> "B", userId |-> ub[1],
                                             homeType |-> "tenant"]]>>,
      devices |-> <<[deviceId |-> "d1", hubCode |-> "A",
                     deviceType |-> <<"L","i","g","h","t">>, on |-> TRUE],
                    [deviceId |-> "d2", hubCode |-> "A",
                     deviceType |-> <<"t","h","e","r","m","o","s","t","a","t">>,
                     on |-> ub[2]],
                    [deviceId |-> "d3", hubCode |-> "B",
                     deviceType |-> <<"F","a","n">>, on |-> TRUE]>>,
      rooms |-> <<[roomId |-> "r1", roomName |-> "Den", hubCode |-> "A",
                   devices |-> <<Str("d1"), Str("d2")>>],
                  [roomId |-> "r2", roomName |-> "Hall", hubCode |-> "B",
                   devices |-> <<Dict([deviceId |-> "d3"])>>]>>] :
        ub \in {<<"u1", TRUE>>, <<"u1", FALSE>>}}
    \cup {[userHubs |-> <<[id |-> "h1", data |-> [hubCode |-> "A", userId |-> "u1",
                                                  homeType |-> "tenant"]],
                          [id |-> "h2", data |-> [hubCode |-> "B", userId |-> "u2",
                                                  homeType |-> "tenant"]],
                          [id |-> "h3", data |-> [hubCode |-> "M", homeType |-> "admin",
                                                  units |-> <<"A", "Z", "B">>]]>>,
           devices |-> <<[deviceId |-> "d1", hubCode |-> "A",
                          deviceType |-> <<"l","i","g","h","t">>, on |-> TRUE],
                         [deviceId |-> "d3", hubCode |-> "B",
                          deviceType |-> <<"T","v">>, on |-> TRUE]>>,
           rooms |-> <<[roomId |-> "r1", roomName |-> "Den", hubCode |-> "A",
                        devices |-> <<Str("d1")>>],
                       [roomId |-> "r4", roomName |-> "Attic", hubCode |-> "A",
                        devices |-> <<Str("d9")>>],
                       [roomId |-> "r2", roomName |-> "Hall", hubCode |-> "B",
                        devices |-> <<Dict([deviceId |-> "d3"])>>]>>]}

UserArgs == {"u1", "u2"}

\* the routes of the API and the methods behind them that are queried
QueryOps == {"get_top_consumers", "get_energy_summary", "get_hub_energy_data",
             "get_room_energy_data", "get_hub_real_energy_data",
             "get_admin_hub_energy_data"}

\* the API serves one request at a time, between the passes: a request is
\* taken once the response before it has been sent
Ready ==
    /\ pc = "idle"
    /\ passes # <<>>
    /\ last.op \notin QueryOps

\* a query returns what, at the date the clock shows; the store is not written
Queried(what) ==
    /\ last' = what
    /\ UNCHANGED <<db, remote, clock, pc, hubs, i, devices, rooms, j, calc, run, passes,
                   failures, calls, peer, sched>>

\* the response of the last query is sent
Respond ==
    /\ last.op \in QueryOps
    /\ last' = [op |-> "respond"]
    /\ UNCHANGED <<db, remote, clock, pc, hubs, i, devices, rooms, j, calc, run, passes,
                   failures, calls, peer, sched>>

\* midnight passes while nothing runs
Tick ==
    /\ pc = "idle"
    /\ clock < MaxDay
    /\ clock' = clock + 1
    /\ last' = [op |-> "tick"]
    /\ UNCHANGED <<db, remote, pc, hubs, i, devices, rooms, j, calc, run, passes,
                   failures, calls, peer, sched>>

\* a period the query answers and one it does not
PeriodArgs == {"daily", "weekly"}

CallGetTopConsumers ==
    /\ Ready
    /\ \E user_id \in UserArgs, time_period \in PeriodArgs, limit \in 1..MaxLimit :
          \E ret \in get_top_consumers(db, clock, user_id, time_period, limit) :
              Queried([op |-> "get_top_consumers", user_id |-> user_id,
                       time_period |-> time_period, limit |-> limit,
                       now |-> clock, ret |-> ret])

CallGetEnergySummary ==
    /\ Ready
    /\ \E user_id \in UserArgs :
          Queried([op |-> "get_energy_summary", user_id |-> user_id, now |-> clock,
                   ret |-> get_energy_summary(db, clock, user_id)])

\* the tenant hubs, a code of no hub, and the admin hub
HubArgs == {"A", "B", "C", "M"}

CallGetHubEnergyData ==
    /\ Ready
    /\ \E hub_code \in HubArgs :
          Queried([op |-> "get_hub_energy_data", hub_code |-> hub_code, now |-> clock,
                   ret |-> get_hub_energy_data(remote, clock, hub_code)])

RoomArgs == {"r1", "r2", "r3"}

CallGetRoomEnergyData ==
    /\ Ready
    /\ \E room_id \in RoomArgs :
          \E ret \in get_room_energy_data(db, remote, clock, room_id) :
              Queried([op |-> "get_room_energy_data", room_id |-> room_id, now |-> clock,
                       ret |-> ret])

CallGetHubRealEnergyData ==
    /\ Ready
    /\ \E hub_code \in HubArgs :
          Queried([op |-> "get_hub_real_energy_data", hub_code |-> hub_code, now |-> clock,
                   ret |-> get_hub_real_energy_data(remote, clock, hub_code)])

AdminArgs == {"M", "A", "C"}

CallGetAdminHubEnergyData ==
    /\ Ready
    /\ \E hub_code \in AdminArgs :
          \E ret \in get_admin_hub_energy_data(remote, clock, hub_code) :
              Queried([op |-> "get_admin_hub_energy_data", hub_code |-> hub_code,
                       now |-> clock, ret |-> ret])

InitView == \E r \in ViewSnapshots : Start(r)

NextView ==
    \/ Next
    \/ CallGetTopConsumers
    \/ CallGetEnergySummary
    \/ CallGetHubEnergyData
    \/ CallGetRoomEnergyData
    \/ CallGetHubRealEnergyData
    \/ CallGetAdminHubEnergyData
    \/ Respond
    \/ Tick

SpecView == InitView /\ [][NextView]_vars

-----------------------------------------------------------------------------
(* DatabaseManager used directly: its public methods called with arguments   *)
(* of the caller's choice, on a fresh database file                          *)

HubIdArgs == {"h1", "h2"}
HubCodeArgs == {"A", "B"}
UserIdArgs == {"u1", "", NULL}
DeviceIdArgs == {"d1", "d2"}
DeviceListArgs == {<<>>, <<"d1">>, <<"d1", "d2">>}

\* a call returns: it is counted, and it leaves the pass and the remote alone
Called(d, what) ==
    /\ calls < MaxCalls
    /\ calls' = calls + 1
    /\ db' = d
    /\ last' = what
    /\ UNCHANGED <<remote, clock, pc, hubs, i, devices, rooms, j, calc, run, passes,
                   failures, peer, sched>>

CallAddUser ==
    \E user_id \in UserIdArgs \ {"", NULL} :
        LET r == add_user(db, user_id)
        IN  Called(r.db, [op |-> "add_user", user_id |-> user_id, ret |-> r.ret])

CallAddHub ==
    \E hub_id \in HubIdArgs, hub_code \in HubCodeArgs, user_id \in UserIdArgs :
        LET r == add_hub(db, hub_id, hub_code, user_id, "tenant")
        IN  Called(r.db, [op |-> "add_hub", hub_id |-> hub_id, hub_code |-> hub_code,
                          user_id |-> user_id, ret |-> r.ret])

CallAddDevice ==
    \E device_id \in DeviceIdArgs, hub_code \in HubCodeArgs, status \in BOOLEAN :
        LET r == add_device(db, device_id, hub_code, <<"l","i","g","h","t">>, status)
        IN  Called(r.db, [op |-> "add_device", device_id |-> device_id,
                          hub_code |-> hub_code, status |-> status, ret |-> r.ret])

CallAddRoom ==
    \E hub_code \in HubCodeArgs, devs \in DeviceListArgs :
        LET r == add_room(db, "r1", "Den", hub_code, devs)
        IN  Called(r.db, [op |-> "add_room", room_id |-> "r1", hub_code |-> hub_code,
                          devices |-> devs, ret |-> r.ret])

CallStoreDailyEnergy ==
    \E hub_code \in HubCodeArgs :
        LET r == store_daily_energy(db, 1, "u1", hub_code, "d1",
                                    <<"l","i","g","h","t">>, 60, 10)
        IN  Called(r.db, [op |-> "store_daily_energy", hub_code |-> hub_code,
                          device_id |-> "d1", date |-> 1, ret |-> r.ret])

CallStoreHubDailyTotal ==
    \E hub_code \in HubCodeArgs, energy_kwh \in {60, 180} :
        LET r == store_hub_daily_total(db, 1, "u1", hub_code, energy_kwh)
        IN  Called(r.db, [op |-> "store_hub_daily_total", hub_code |-> hub_code,
                          energy_kwh |-> energy_kwh, date |-> 1, ret |-> r.ret])

InitDb == Start(NoSnapshot)

NextDb ==
    \/ CallAddUser
    \/ CallAddHub
    \/ CallAddDevice
    \/ CallAddRoom
    \/ CallStoreDailyEnergy
    \/ CallStoreHubDailyTotal

SpecDb == InitDb /\ [][NextDb]_vars

-----------------------------------------------------------------------------
(* Connections to the database file: what a call does with the connections  *)
(* it opens, in the order of its statements, on the exit path it takes       *)

\* connections a trace leaves open: those opened less those closed
RECURSIVE Open(_)
Open(trace) ==
    IF trace = <<>> THEN 0
    ELSE (IF Head(trace) = "connect" THEN 1 ELSE IF Head(trace) = "close" THEN -1 ELSE 0)
         + Open(Tail(trace))

\* add_user: _get_connection, the statement, commit; finally conn.close()
add_user_connections(d, user_id) ==
    <<"connect", "commit", "return", "close">>

\* add_hub: add_user runs on a connection of its own inside the try; the
\* first attempt commits, or the retry does, or both are rolled back; finally
add_hub_connections(d, hub_id, hub_code, user_id, home_type) ==
    LET uid == IF user_id = NULL \/ user_id = "" THEN user_(hub_code) ELSE user_id
        d1 == add_user(d, uid).db
        row == [hub_id |-> hub_id, hub_code |-> hub_code,
                user_id |-> uid, home_type |-> home_type]
    IN  <<"connect">> \o add_user_connections(d, uid)
        \o (IF write_hub(d1, row, TRUE).ok THEN <<"commit", "return">>
            ELSE IF write_hub(d1, row, FALSE).ok THEN <<"rollback", "commit", "return">>
            ELSE <<"rollback", "rollback", "return">>)
        \o <<"close">>

\* add_device: commit, or rollback in the except clause; finally
add_device_connections(d, device_id, hub_code, device_type, status) ==
    <<"connect">>
    \o (IF add_device(d, device_id, hub_code, device_type, status).ret
        THEN <<"commit", "return">> ELSE <<"rollback", "return">>)
    \o <<"close">>

\* a plausible slip: the check for the hub returns before the try statement
add_room_connections_returning_early(d, room_id, room_name, hub_code, devs) ==
    IF hub_code \notin HubCodes(d) THEN <<"connect", "return">>
    ELSE <<"connect">>
         \o (IF add_room(d, room_id, room_name, hub_code, devs).ret
             THEN <<"commit", "return">> ELSE <<"rollback", "return">>)
         \o <<"close">>

\* add_room: the early return of line 296 is inside the try, so that the
\* finally clause closes the connection on it as on the other exits
add_room_connections(d, room_id, room_name, hub_code, devs) ==
    <<"connect">>
    \o (IF hub_code \notin HubCodes(d) THEN <<"return">>
        ELSE IF add_room(d, room_id, room_name, hub_code, devs).ret
        THEN <<"commit", "return">> ELSE <<"rollback", "return">>)
    \o <<"close">>

\* store_daily_energy: commit, or rollback in the except clause; finally
store_daily_energy_connections(d, hub_code) ==
    <<"connect">>
    \o (IF hub_code \in HubCodes(d)
        THEN <<"commit", "return">> ELSE <<"rollback", "return">>)
    \o <<"close">>

\* store_hub_daily_total: as add_hub, with add_user inside the try
store_hub_daily_total_connections(d, date_str, user_id, hub_code, energy_kwh) ==
    LET d1 == add_user(d, user_id).db
    IN  <<"connect">> \o add_user_connections(d, user_id)
        \o (IF write_hub_total(d1, date_str, user_id, hub_code, energy_kwh, 24, TRUE).ok
            THEN <<"commit", "return">>
            ELSE IF write_hub_total(d1, date_str, user_id, hub_code, energy_kwh, 24, FALSE).ok
            THEN <<"rollback", "commit", "return">>
            ELSE <<"rollback", "rollback", "return">>)
        \o <<"close">>

\* get_energy_summary and get_top_consumers: every return is inside the try
query_connections == <<"connect", "return", "close">>

\* get_room_energy_data: one connection to look the room up, one to list its
\* devices, one to read the rows of today, each closed in a finally clause
\* before the next is opened; the 404 and an exception in between leave the
\* function when none is open
get_room_energy_data_connections(d, r, now, room_id) ==
    <<"connect", "close">>
    \o (IF room_details_of(d, r, room_id) = <<>> THEN <<"raise">>
        ELSE <<"connect", "close">>
             \o (IF \E dv \in RoomDeviceRows(d, room_id) : dv.device_type = None
                 THEN <<"raise">>
                 ELSE <<"connect", "close", "return">>))

\* the connection trace of a recorded call made on database d
ConnectionsOf(d, r, call) ==
    CASE call.op = "add_user" -> add_user_connections(d, call.user_id)
      [] call.op = "add_hub" ->
            add_hub_connections(d, call.hub_id, call.hub_code, call.user_id, "tenant")
      [] call.op = "add_device" ->
            add_device_connections(d, call.device_id, call.hub_code,
                                   <<"l","i","g","h","t">>, call.status)
      [] call.op = "add_room" ->
            add_room_connections(d, call.room_id, "Den", call.hub_code, call.devices)
      [] call.op = "store_daily_energy" -> store_daily_energy_connections(d, call.hub_code)
      [] call.op = "store_hub_daily_total" ->
            store_hub_daily_total_connections(d, call.date, "u1", call.hub_code,
                                              call.energy_kwh)
      [] call.op \in {"get_energy_summary", "get_top_consumers"} -> query_connections
      [] call.op = "get_room_energy_data" ->
            get_room_energy_data_connections(d, r, call.now, call.room_id)
      [] OTHER -> <<>>

\* the reporting calls, made at any time between the writes
ReadRoomEnergyData ==
    \E room_id \in {"r1", "r2"} :
        \E ret \in get_room_energy_data(db, remote, clock, room_id) :
            Called(db, [op |-> "get_room_energy_data", room_id |-> room_id,
                        now |-> clock, ret |-> ret])

ReadEnergySummary ==
    Called(db, [op |-> "get_energy_summary", user_id |-> "u1", now |-> clock,
                ret |-> get_energy_summary(db, clock, "u1")])

ReadTopConsumers ==
    \E ret \in get_top_consumers(db, clock, "u1", "daily", MaxLimit) :
        Called(db, [op |-> "get_top_consumers", user_id |-> "u1",
                    time_period |-> "daily", limit |-> MaxLimit, now |-> clock,
                    ret |-> ret])

NextConn ==
    \/ NextDb
    \/ ReadRoomEnergyData
    \/ ReadEnergySummary
    \/ ReadTopConsumers

SpecConn == InitDb /\ [][NextConn]_vars

-----------------------------------------------------------------------------
(* Properties of the synchronisation pass *)

\* the userHubs documents of the snapshot that have no user
DormantHubs == {n \in 1..Len(remote.userHubs) : get(remote.userHubs[n].data, "userId", "") = ""}

\* the code under which a userHubs document is synchronised
SnapshotHubCode(n) == get(remote.userHubs[n].data, "hubCode", remote.userHubs[n].id)

\* the newest row of energy_daily
NewestRow == CHOOSE x \in db.energy_daily : \A y \in db.energy_daily : y.id <= x.id

RECURSIVE SumOfEnergies(_)
SumOfEnergies(devs) ==
    IF devs = <<>> THEN 0
    ELSE device_energy(Head(devs)).energy + SumOfEnergies(Tail(devs))

\* C1: two passes in succession on the same day over the unchanged snapshot,
\* both returning True: the second leaves the row counts of users, hubs,
\* devices, rooms, room_devices, energy_daily and hub_summary as the first
\* left them.
C1_SecondPassChangesNoRowCount ==
    \A n \in 2..Len(passes) :
        (/\ passes[n - 1].ret
         /\ passes[n].ret
         /\ Cardinality(passes[n - 1].days \cup passes[n].days) <= 1)
        => passes[n].counts = passes[n - 1].counts

\* C2: energy_daily holds at most one device-level row per (device_id, date)
\* and at most one hub-total row (device_id NULL) per (hub_code, date).
C2_OneRowPerKeyAndDate ==
    \A a, b \in db.energy_daily :
        (/\ a.date = b.date
         /\ \/ a.device_id # NULL /\ a.device_id = b.device_id
            \/ a.device_id = NULL /\ b.device_id = NULL /\ a.hub_code = b.hub_code)
        => a = b

\* C3: a hub document whose userId is empty or absent is passed over without
\* any write to the store, and no hubs, devices, rooms, energy_daily or
\* hub_summary row is ever stored for it.
C3_DormantHubWritesNothing ==
    /\ [](\A n \in DormantHubs :
            /\ \A h \in db.hubs : h.hub_id # remote.userHubs[n].id
            /\ \A x \in db.devices \cup db.rooms \cup db.energy_daily \cup db.hub_summary :
                  x.hub_code # SnapshotHubCode(n))
    /\ [][(pc = "hubs" /\ i <= Len(hubs) /\ get(hubs[i], "userId", "") = "")
            => (db' = db /\ pc' = "hubs" /\ i' = i + 1)]_vars

\* C3 witness: a dormant hub has just been passed over in a pass that stored
\* another hub
C3_Witness ==
    /\ last.op = "skip"
    /\ get(last.hub, "userId", "") = ""
    /\ db.hubs # {}

\* C4: when a fetch of one hub's devices or rooms fails, or one of its device
\* records is malformed, every later hub of the snapshot that has a user is
\* still processed in the same pass.
C4_FailureIsConfinedToItsHub ==
    \A n \in 1..Len(passes) :
        passes[n].failed_at > 0
        => \A m \in (passes[n].failed_at + 1)..Len(remote.userHubs) :
              m \notin DormantHubs => m \in passes[n].done

\* C5: fetch_and_store_all_data returns True exactly when the hub listing
\* succeeded.
C5_ReturnsTrueIffHubsWereListed ==
    \A n \in 1..Len(passes) : passes[n].ret = passes[n].listed

\* C7: when a hub has been processed, the hub-total row written for today and
\* the daily_energy of the hub_summary row both equal the sum of the energies
\* computed for the devices fetched for that hub.
C7_HubTotalIsSumOfDeviceEnergies ==
    last.op = "store_hub_daily_total"
    => /\ NewestRow.device_id = NULL
       /\ NewestRow.device_type = hub_total
       /\ NewestRow.date = clock
       /\ NewestRow.hub_code = last.hub_code
       /\ NewestRow.energy_kwh = SumOfEnergies(devices)
       /\ \E s \in db.hub_summary :
             /\ s.hub_code = last.hub_code
             /\ s.daily_energy = SumOfEnergies(devices)
       /\ \A s, t \in db.hub_summary : s.hub_code = t.hub_code => s = t

\* C7 witness: a hub total over two devices that both consume energy
C7_Witness ==
    /\ last.op = "store_hub_daily_total"
    /\ Len(devices) = 2
    /\ \A n \in 1..2 : device_energy(devices[n]).energy > 0
    /\ NewestRow.energy_kwh = 60 + 30

\* C8: for a device whose on-status is false or missing the derivation
\* computes energy 0 and 0 usage hours and stores them, whatever the type:
\* every energy_daily row of such a device holds 0 and 0.
C8_OffDeviceHasZeroEnergyAndHours ==
    /\ (last.op = "store_daily_energy" /\ ~get(last.device, "on", FALSE))
       => /\ last.energy = 0
          /\ last.hours = 0
          /\ last.ret => (NewestRow.energy_kwh = 0 /\ NewestRow.usage_hours = 0
                          /\ NewestRow.device_id = get(last.device, "deviceId", "unknown"))
    /\ \A n \in 1..Len(remote.devices) :
          ~get(remote.devices[n], "on", FALSE)
          => \A x \in db.energy_daily :
                x.device_id = get(remote.devices[n], "deviceId", "unknown")
                => (x.energy_kwh = 0 /\ x.usage_hours = 0)

\* C8 witness: a thermostat that is off has had its row stored
C8_Witness ==
    /\ last.op = "store_daily_energy"
    /\ ~get(last.device, "on", FALSE)
    /\ last.device_type = <<"t","h","e","r","m","o","s","t","a","t">>
    /\ last.ret

\* C9: for a device that is on, usage_hours is 24 when the lower-cased type is
\* thermostat, door or smartdoor and 10 otherwise, the rate is the rating
\* table's (0 for a type it does not hold) and the energy stored is
\* rate x usage_hours: 1.2 kWh for a thermostat, 0.6 kWh for a light.
C9_OnDeviceEnergyIsRateTimesHours ==
    (last.op = "store_daily_energy" /\ get(last.device, "on", FALSE))
    => LET t == last.device_type
           day_long == t \in {<<"t","h","e","r","m","o","s","t","a","t">>,
                              <<"d","o","o","r">>,
                              <<"s","m","a","r","t","d","o","o","r">>}
           rate == IF t \in DOMAIN ENERGY_RATES THEN ENERGY_RATES[t] ELSE 0
       IN  /\ last.hours = IF day_long THEN 24 ELSE 10
           /\ last.energy = rate * last.hours
           /\ t = <<"t","h","e","r","m","o","s","t","a","t">> => last.energy = 120
           /\ t = <<"l","i","g","h","t">> => last.energy = 60
           /\ t = <<"d","o","o","r">> => last.energy = 24
           /\ t = <<"g","i","z","m","o">> => last.energy = 0
           /\ last.ret => /\ NewestRow.energy_kwh = last.energy
                          /\ NewestRow.usage_hours = last.hours
                          /\ NewestRow.device_type = t

\* C9 witness: a door that is on has had its row stored
C9_Witness ==
    /\ last.op = "store_daily_energy"
    /\ get(last.device, "on", FALSE)
    /\ last.device_type = <<"d","o","o","r">>
    /\ last.ret
    /\ NewestRow.energy_kwh = 24

\* the spellings of light in the snapshots
LightSpellings == {<<"L","i","g","h","t">>, <<"l","i","g","h","t">>, <<"L","I","G","H","T">>}

\* C10: a device type is stored lower-cased, so that Light, light and LIGHT
\* are stored as light, get the rate of light and the same daily energy.
C10_TypesDifferingInCaseAreOneType ==
    /\ \A x \in db.devices \cup db.energy_daily :
          \A n \in 1..Len(x.device_type) :
              \A k \in 1..Len(Upper) : x.device_type[n] # Upper[k]
    /\ (last.op = "add_device" /\ last.ret
        /\ get(last.device, "deviceType", unknown) \in LightSpellings)
       => \E x \in db.devices :
             /\ x.device_id = get(last.device, "deviceId", "unknown")
             /\ x.device_type = <<"l","i","g","h","t">>
    /\ (last.op = "store_daily_energy"
        /\ get(last.device, "deviceType", unknown) \in LightSpellings)
       => /\ last.device_type = <<"l","i","g","h","t">>
          /\ last.energy = IF get(last.device, "on", FALSE) THEN 60 ELSE 0
          /\ last.ret => (NewestRow.device_type = <<"l","i","g","h","t">>
                          /\ NewestRow.energy_kwh = last.energy)

\* C10 witness: a device spelled LIGHT that is on has had its row stored
C10_Witness ==
    /\ last.op = "store_daily_energy"
    /\ get(last.device, "deviceType", unknown) = <<"L","I","G","H","T">>
    /\ get(last.device, "on", FALSE)
    /\ last.ret
    /\ NewestRow.energy_kwh = 60

\* the device ids linked to a room in room_devices
Members(room_id) == {x.device_id : x \in {y \in db.room_devices : y.room_id = room_id}}

\* C12: when the pass has upserted a room with the normalized id list L, the
\* room_devices rows of that room are exactly the ids of L, also when L is
\* empty or names a device that has no devices row.
C12_MembershipIsTheList ==
    last.op = "add_room"
    => Members(get(last.room, "roomId", "unknown"))
          = {last.ids[n] : n \in 1..Len(last.ids)}

\* room documents a and b of the snapshot list the same ids, a as bare
\* strings and b as objects with deviceId
SameIdsInBothForms(a, b) ==
    LET x == get(remote.rooms[a], "devices", <<>>)
        y == get(remote.rooms[b], "devices", <<>>)
    IN  /\ get(remote.rooms[a], "hubCode", "") = get(remote.rooms[b], "hubCode", "")
        /\ Len(x) = Len(y)
        /\ x # <<>>
        /\ \A n \in 1..Len(x) :
              /\ x[n].type = "str"
              /\ y[n].type = "dict"
              /\ "deviceId" \in DOMAIN y[n].value
              /\ y[n].value.deviceId = x[n].value

\* C13: a room that lists its devices as bare id strings and a room that
\* lists the same ids as objects with deviceId are stored alike: once the
\* pass has upserted both, they have the same room_devices ids and the same
\* device_count, or neither is stored.
C13_BothFormsStoredAlike ==
    \A a, b \in 1..Len(remote.rooms) :
        (/\ a < b
         /\ SameIdsInBothForms(a, b)
         /\ last.op = "add_room"
         /\ get(last.room, "roomId", "unknown") = get(remote.rooms[b], "roomId", "unknown"))
        => LET ra == {r \in db.rooms : r.room_id = get(remote.rooms[a], "roomId", "unknown")}
               rb == {r \in db.rooms : r.room_id = get(remote.rooms[b], "roomId", "unknown")}
           IN  /\ Members(get(remote.rooms[a], "roomId", "unknown"))
                     = Members(get(remote.rooms[b], "roomId", "unknown"))
               /\ {r.device_count : r \in ra} = {r.device_count : r \in rb}
               /\ Len(last.ids) = Len(remote.rooms[a].devices)
               /\ \A n \in 1..Len(last.ids) :
                     last.ids[n] = remote.rooms[a].devices[n].value

\* C13 witness: both rooms are stored, each with the two devices
C13_Witness ==
    /\ last.op = "add_room"
    /\ get(last.room, "roomId", "unknown") = "r2"
    /\ last.ret
    /\ Members("r1") = {"d1", "d2"}
    /\ Members("r2") = {"d1", "d2"}
    /\ \A r \in db.rooms : r.device_count = 2

\* C25: the hub-total row of energy_daily and the hub_summary row a pass
\* writes for a hub, and every device row of energy_daily it writes for it,
\* carry the hub_code of the hubs row the pass wrote for that hub, also when
\* the userHubs document has no hubCode
C25_EnergyRowsCarryTheHubCode ==
    /\ (last.op = "store_hub_daily_total" /\ last.ret)
          => \A h \in db.hubs :
                h.hub_id = hub_id_of(last.hub)
                  => /\ NewestRow.hub_code = h.hub_code
                     /\ \E x \in db.hub_summary :
                            x.hub_code = h.hub_code /\ x.daily_energy = NewestRow.energy_kwh
    /\ (last.op = "store_daily_energy" /\ last.ret)
          => \A h \in db.hubs :
                h.hub_id = hub_id_of(hubs[i]) => NewestRow.hub_code = h.hub_code

-----------------------------------------------------------------------------
(* Properties of passes over an edited remote store *)

RemoteHubIds == {remote.userHubs[n].id : n \in 1..Len(remote.userHubs)}

RemoteDeviceIds ==
    {get(remote.devices[n], "deviceId", "unknown") : n \in 1..Len(remote.devices)}

\* C14: no step of a pass deletes a users, hubs or devices row, and a hubs or
\* devices row whose document is no longer in the remote store is left as it
\* is.
C14_NothingIsPurged ==
    [][/\ db.users \subseteq db'.users
       /\ \A h \in db.hubs : \E g \in db'.hubs : g.hub_id = h.hub_id
       /\ \A x \in db.devices : \E y \in db'.devices : y.device_id = x.device_id
       /\ \A h \in db.hubs : h.hub_id \notin RemoteHubIds => h \in db'.hubs
       /\ \A x \in db.devices : x.device_id \notin RemoteDeviceIds => x \in db'.devices]_vars

\* C14 witness: a pass has completed over a remote store that no longer holds
\* a stored hub, its user and a stored device
C14_Witness ==
    /\ last.op = "return"
    /\ Len(passes) = 2
    /\ passes[2].ret
    /\ \E h \in db.hubs : h.hub_id \notin RemoteHubIds /\ h.user_id \in db.users
    /\ \E x \in db.devices : x.device_id \notin RemoteDeviceIds

\* C26: in every state, also during and after a pass that finds the hubCode
\* of a stored hub changed, the hub_code of every devices row is the
\* hub_code of a hubs row
C26_DeviceHubCodeIsStored ==
    \A x \in db.devices : x.hub_code \in HubCodes(db)

-----------------------------------------------------------------------------
(* Properties of the read queries *)

\* C15: get_top_consumers(user_id, period, limit) returns at most limit rows,
\* each the energy of a device-level energy_daily row (device_id not NULL) of
\* that user dated today, in descending order of energy_kwh.
C15_TopConsumersAreLimitedAndOrdered ==
    last.op = "get_top_consumers"
    => /\ Len(last.ret) <= last.limit
       /\ \A n \in 1..Len(last.ret) :
             /\ last.ret[n].device_id # NULL
             /\ \E ed \in db.energy_daily :
                   /\ ed.user_id = last.user_id
                   /\ ed.date = last.now
                   /\ ed.device_id = last.ret[n].device_id
                   /\ ed.energy_kwh = last.ret[n].energy_kwh
       /\ \A n, m \in 1..Len(last.ret) :
             n < m => last.ret[n].energy_kwh >= last.ret[m].energy_kwh

\* C15 witness: more device rows of today than the limit, rows of an earlier
\* day beside them, and the two largest returned
C15_Witness ==
    /\ last.op = "get_top_consumers"
    /\ last.limit = 2
    /\ Len(last.ret) = 2
    /\ last.ret[1].energy_kwh = 120
    /\ last.ret[2].energy_kwh = 60
    /\ Cardinality(TopRows(db, last.now, last.user_id)) > 2
    /\ \E ed \in db.energy_daily : ed.date < last.now /\ ed.user_id = last.user_id

\* the hub-total rows of a user that are dated day
HubTotalRows(user_id, day) ==
    {x \in db.energy_daily : x.device_id = NULL /\ x.user_id = user_id /\ x.date = day}

\* C16: get_energy_summary(user_id) returns as daily total the sum of the
\* stored hub-total rows (device_id NULL) of the user that are dated today,
\* 0 when there is none, 0 for the weekly, monthly and yearly periods, for
\* which no row is stored, and the hubs of the user.
C16_SummaryIsSumOfHubTotals ==
    last.op = "get_energy_summary"
    => /\ last.ret.daily_total = SumEnergy(HubTotalRows(last.user_id, last.now))
       /\ HubTotalRows(last.user_id, last.now) = {} => last.ret.daily_total = 0
       /\ last.ret.weekly_total = 0
       /\ last.ret.monthly_total = 0
       /\ last.ret.yearly_total = 0
       /\ \A h \in db.hubs :
             h.user_id = last.user_id
             <=> [hub_code |-> h.hub_code, home_type |-> h.home_type] \in last.ret.hubs
       /\ \A x \in last.ret.hubs : \E h \in db.hubs : h.hub_code = x.hub_code
       /\ last.ret.hub_count = Cardinality(last.ret.hubs)

\* C16 witness: the summary of a user with two hubs, after one pass today
\* that stored a total for each
C16_Witness ==
    /\ last.op = "get_energy_summary"
    /\ last.ret.hub_count = 2
    /\ {x.hub_code : x \in HubTotalRows(last.user_id, last.now)} = {"A", "B"}
    /\ last.ret.daily_total = 180 + 30
    /\ \E x \in db.energy_daily : x.device_id # NULL /\ x.energy_kwh > 0

\* the three longer periods of a view are the daily period times 7, 30 and 365
Extrapolated(totals, entries) ==
    \A period \in Periods \ {"daily"} :
        /\ totals[period] = time_multiplier(period) * totals["daily"]
        /\ DOMAIN entries[period] = DOMAIN entries["daily"]
        /\ \A k \in DOMAIN entries["daily"] :
               entries[period][k].energy_value
                 = time_multiplier(period) * entries["daily"][k].energy_value

TotalsOf(energy_data) == [period \in Periods |-> energy_data[period].total_energy]

RoomsOf(energy_data) == [period \in Periods |-> energy_data[period].rooms]
DevicesOf(energy_data) == [period \in Periods |-> energy_data[period].devices]

\* C17: in the simulated hub view, per room, and in the simulated room view,
\* per device, when no stored row of the day replaces a daily value, the
\* weekly, monthly and yearly energies are 7, 30 and 365 times the daily
\* one, for every room or device and for the totals of the periods
C17_LongerPeriodsAreMultiplesOfDaily ==
    /\ (last.op = "get_hub_energy_data" /\ last.ret.status = 200)
          => Extrapolated(TotalsOf(last.ret.energy_data), RoomsOf(last.ret.energy_data))
    /\ (/\ last.op = "get_room_energy_data"
        /\ last.ret.status = 200
        /\ RealRows(db, last.now, last.room_id) = {})
          => Extrapolated(TotalsOf(last.ret.energy_data), DevicesOf(last.ret.energy_data))

\* the hub whose only device is a light that is on has been asked for:
\* 0.6, 4.2, 18.0 and 219.0 kWh
C17_Witness ==
    /\ last.op = "get_hub_energy_data"
    /\ last.hub_code = "A"
    /\ Len(get_devices_by_hub_code(remote, "A")) = 1
    /\ remote.devices[1].deviceType = <<"l","i","g","h","t">>
    /\ remote.devices[1].on
    /\ last.ret.status = 200
    /\ last.ret.energy_data["daily"].total_energy = 60
    /\ last.ret.energy_data["weekly"].total_energy = 420
    /\ last.ret.energy_data["monthly"].total_energy = 1800
    /\ last.ret.energy_data["yearly"].total_energy = 21900
    /\ last.ret.energy_data["yearly"].rooms["Den"].energy_value = 21900

\* the device ids the remote documents of a room list
RemoteMembers(room_id) ==
    UNION {{device_ids(get(remote.rooms[n], "devices", <<>>))[m] :
               m \in 1..Len(device_ids(get(remote.rooms[n], "devices", <<>>)))} :
           n \in {k \in 1..Len(remote.rooms) : get(remote.rooms[k], "roomId", "") = room_id}}

\* the simulated hub view of the hub of the room the last query was about
HubViewOfRoom == get_hub_energy_data(remote, last.now, last.ret.hub_id)

\* C18: for a room whose stored members are the devices its remote document
\* lists and for which no stored row of the day replaces a daily value, the
\* total of each period of the simulated room view is the energy the
\* simulated hub view reports for that room in that period
C18_RoomViewAgreesWithHubView ==
    (/\ last.op = "get_room_energy_data"
     /\ last.ret.status = 200
     /\ RealRows(db, last.now, last.room_id) = {}
     /\ DOMAIN last.ret.energy_data["daily"].devices = RemoteMembers(last.room_id)
     /\ HubViewOfRoom.status = 200
     /\ last.ret.room_name \in DOMAIN HubViewOfRoom.energy_data["daily"].rooms)
    => \A period \in Periods :
          last.ret.energy_data[period].total_energy
            = HubViewOfRoom.energy_data[period].rooms[last.ret.room_name].energy_value

\* the hub-total rows stored for a hub and a day
StoredHubTotals(hub_code, day) ==
    {x \in db.energy_daily : x.hub_code = hub_code /\ x.date = day /\ x.device_id = NULL}

\* the device rows stored for the members of a remote room and a day
StoredRoomRows(room, day) ==
    {x \in db.energy_daily :
        /\ x.date = day
        /\ \E n \in 1..Len(device_ids(get(room, "devices", <<>>))) :
               device_ids(get(room, "devices", <<>>))[n] = x.device_id}

\* C19: the real hub view reports for the daily period the stored hub total
\* of the day and, for each room of the hub, the sum of the energies stored
\* that day for its member devices; for the weekly, monthly and yearly
\* periods it reports every room with energy 0 and a total of 0. (The daily
\* part is stated for a day with one stored total, that of one pass.)
C19_RealViewReportsStoredDay ==
    (last.op = "get_hub_real_energy_data" /\ last.ret.status = 200)
    => LET rooms_ == get_rooms_by_hub_code(remote, last.hub_code)
           daily == last.ret.energy_data["daily"]
       IN  /\ \A x \in StoredHubTotals(last.hub_code, last.now) :
                  StoredHubTotals(last.hub_code, last.now) = {x}
                    => /\ daily.total_energy = x.energy_kwh
                       /\ \A n \in 1..Len(rooms_) :
                              /\ view_room_name(rooms_[n]) \in DOMAIN daily.rooms
                              /\ daily.rooms[view_room_name(rooms_[n])].energy_value
                                    = SumEnergy(StoredRoomRows(rooms_[n], last.now))
           /\ \A period \in Periods \ {"daily"} :
                  /\ last.ret.energy_data[period].total_energy = 0
                  /\ \A n \in 1..Len(rooms_) :
                         /\ view_room_name(rooms_[n])
                               \in DOMAIN last.ret.energy_data[period].rooms
                         /\ last.ret.energy_data[period]
                               .rooms[view_room_name(rooms_[n])].energy_value = 0

\* the tenant hub codes of the admin hub the last query was about
UnitsOfAdmin == get(query_hubs(remote, last.hub_code)[1], "units", <<>>)

\* the sum of the energy values of the entries of a dictionary
RECURSIVE SumOfEntries(_)
SumOfEntries(entries) ==
    IF DOMAIN entries = {} THEN 0
    ELSE LET k == CHOOSE x \in DOMAIN entries : TRUE
         IN  entries[k].energy_value
             + SumOfEntries([x \in DOMAIN entries \ {k} |-> entries[x]])

\* C20: in the admin hub view, a tenant hub code of the units for which the
\* real and the simulated hub view both fail is listed with a daily energy
\* between 20 and 70 kWh and with weekly, monthly and yearly energies of 7,
\* 30 and 365 times the daily one, and the totals of the admin view are the
\* sums of the listed values (so that with one such tenant beside a tenant
\* of daily total t the admin daily total lies between t + 20 and t + 70)
C20_FailedTenantGetsSubstitute ==
    (last.op = "get_admin_hub_energy_data" /\ last.ret.status = 200)
    => /\ \A n \in 1..Len(UnitsOfAdmin) :
              tenant_data(remote, last.now, UnitsOfAdmin[n]).status # 200
                => \A period \in Periods :
                      LET listed == last.ret.energy_data[period].tenant_hubs
                          name == tenant_name(remote, UnitsOfAdmin, n)
                      IN  /\ name \in DOMAIN listed
                          /\ listed[name].hub_id = UnitsOfAdmin[n]
                          /\ last.ret.energy_data["daily"].tenant_hubs[name].energy_value
                                \in SubstituteDaily
                          /\ listed[name].energy_value
                                = time_multiplier(period)
                                  * last.ret.energy_data["daily"].tenant_hubs[name].energy_value
       /\ \A period \in Periods :
              last.ret.energy_data[period].total_energy
                = SumOfEntries(last.ret.energy_data[period].tenant_hubs)

\* the homeType of the hub the last query was about, as the views compare it
HomeTypeOfQueried == get(query_hubs(remote, last.hub_code)[1], "homeType", "")

\* C21: a tenant-only hub view (simulated or real) asked for a hub that
\* exists and is not a tenant hub, and the admin view asked for a hub that
\* exists and is not an admin hub, end with status 403
C21_WrongViewIsForbidden ==
    /\ (/\ last.op \in {"get_hub_energy_data", "get_hub_real_energy_data"}
        /\ query_hubs(remote, last.hub_code) # <<>>
        /\ HomeTypeOfQueried # "tenant")
          => last.ret.status = 403
    /\ (/\ last.op = "get_admin_hub_energy_data"
        /\ query_hubs(remote, last.hub_code) # <<>>
        /\ HomeTypeOfQueried # "admin")
          => last.ret.status = 403

\* the sum of the hub totals a pass over the snapshot computes for the first
\* n hubs, counting those of the user
RECURSIVE HubTotalsOfUser(_, _)
HubTotalsOfUser(user_id, n) ==
    IF n = 0 THEN 0
    ELSE HubTotalsOfUser(user_id, n - 1)
         + (IF get(remote.userHubs[n].data, "userId", "") = user_id
            THEN SumOfEnergies(get_devices_by_hub_code(remote, SnapshotHubCode(n)))
            ELSE 0)

\* C22: after one or more passes that all returned True and all ran on the
\* day of the query, the daily_total of get_energy_summary for a user is the
\* sum of the hub totals one pass computes for the hubs of that user, however
\* many passes have run
C22_SummaryDoesNotGrowWithPasses ==
    (/\ last.op = "get_energy_summary"
     /\ last.user_id # ""
     /\ \A n \in 1..Len(passes) : passes[n].ret /\ passes[n].days \subseteq {last.now})
    => last.ret.daily_total = HubTotalsOfUser(last.user_id, Len(remote.userHubs))

\* C23: the list get_top_consumers returns names each device_id at most once
C23_TopConsumersNameADeviceOnce ==
    last.op = "get_top_consumers"
    => \A n, m \in 1..Len(last.ret) :
          n # m => last.ret[n].device_id # last.ret[m].device_id

\* C30: in a response of the room view, the daily total is the sum of the
\* daily energy values of the devices it lists, whatever number of passes has
\* run and whether or not rows of today replace the simulated values
C30_RoomDailyTotalIsSumOfDevices ==
    (last.op = "get_room_energy_data" /\ last.ret.status = 200)
        => last.ret.energy_data["daily"].total_energy
              = SumOfEntries(last.ret.energy_data["daily"].devices)

-----------------------------------------------------------------------------
(* Properties of passes that run at once *)

\* the store after the device loop of a pass has stored devs for a hub
RECURSIVE AfterDevices(_, _, _)
AfterDevices(d, devs, hub_code) ==
    IF devs = <<>> THEN d
    ELSE AfterDevices(add_device(d, get(Head(devs), "deviceId", "unknown"), hub_code,
                                 lower(get(Head(devs), "deviceType", unknown)),
                                 get(Head(devs), "on", FALSE)).db,
                      Tail(devs), hub_code)

\* the store after the room loop of a pass has stored rms for a hub
RECURSIVE AfterRooms(_, _, _)
AfterRooms(d, rms, hub_code) ==
    IF rms = <<>> THEN d
    ELSE AfterRooms(add_room(d, get(Head(rms), "roomId", "unknown"),
                             get(Head(rms), "roomName", get(Head(rms), "roomId", "unknown")),
                             hub_code, device_ids(get(Head(rms), "devices", <<>>))).db,
                    Tail(rms), hub_code)

\* the store after a pass that nothing interrupts has processed the hubs hs
\* of the remote store r. (The derivation writes energy_daily and
\* hub_summary only, which are left out.)
RECURSIVE AfterHubs(_, _, _)
AfterHubs(d, r, hs) ==
    IF hs = <<>> THEN d
    ELSE LET hub == Head(hs)
             hub_code == hub_code_of(hub)
             d1 == add_hub(d, hub_id_of(hub), hub_code, user_id_of(hub), home_type_of(hub)).db
             d2 == AfterDevices(d1, get_devices_by_hub_code(r, hub_code), hub_code)
             d3 == AfterRooms(d2, get_rooms_by_hub_code(r, hub_code), hub_code)
         IN  AfterHubs(IF dormant(hub) THEN d ELSE d3, r, Tail(hs))

\* the hubs, devices, rooms and room_devices tables of a store
Entities(d) ==
    [hubs |-> d.hubs, devices |-> d.devices, rooms |-> d.rooms,
     room_devices |-> d.room_devices]

\* C24: when two passes over the same snapshot that were in progress at once
\* have both returned True, on a store that was empty before them, the hubs,
\* devices, rooms and room_devices tables are those one pass alone leaves
C24_RacingPassesLeaveSinglePassTables ==
    (/\ pc = "idle" /\ peer.pc = "idle"
     /\ peer.overlap
     /\ Len(passes) = 2
     /\ passes[1].ret /\ passes[2].ret)
    => Entities(db) = Entities(AfterHubs(EmptyDb, remote, get_all_hubs(remote)))

-----------------------------------------------------------------------------
(* Properties of run_scheduler *)

\* pass n has returned and the loop has not been left
Returned(n) ==
    /\ sched.at \in {"pass", "sleep"}
    /\ Len(passes) = n
    /\ pc = "idle"

\* pass n + 1 has been started, or the loop has been left
StartedAfter(n) ==
    \/ sched.at = "stopped"
    \/ Len(passes) = n /\ pc # "idle"
    \/ Len(passes) > n

\* C27: run_scheduler alternates passes and sleeps without end: the loop is
\* left only on an interrupt, and after every pass that has returned, with
\* true or with false, the next pass is eventually started unless an
\* interrupt has ended the loop
C27_SchedulerRunsWithoutEnd ==
    /\ [](sched.at = "stopped" => sched.interrupted)
    /\ \A n \in 1..(MaxPasses - 1) : Returned(n) ~> StartedAfter(n)

-----------------------------------------------------------------------------
(* Properties of the connections *)

\* C28: every call of a DatabaseManager operation or of the room view closes
\* the connections it opens on whatever path it returns: when the call has
\* returned, none of them is open
C28_ConnectionsAreClosed ==
    [][Open(ConnectionsOf(db, remote, last')) = 0]_vars

\* add_room has returned False on its early return: no hub of the code is stored
C28_Witness ==
    /\ last.op = "add_room"
    /\ ~last.ret
    /\ last.hub_code \notin HubCodes(db)

-----------------------------------------------------------------------------
(* Properties of the hub summary *)

\* the columns of a hub_summary row that store_hub_daily_total does not name
Rest(x) ==
    [weekly_energy |-> x.weekly_energy, monthly_energy |-> x.monthly_energy,
     yearly_energy |-> x.yearly_energy, device_count |-> x.device_count]

-----------------------------------------------------------------------------
(* Properties of DatabaseManager *)

\* C11: in every state the user_id of every hubs row is a row of users, and an
\* add_hub given an empty or None user_id stores the hub under the user
\* "user_" + hub_code, which it has created.
C11_HubUserExists ==
    /\ \A h \in db.hubs : h.user_id \in db.users
    /\ (last.op = "add_hub" /\ last.ret /\ last.user_id \in {"", NULL})
       => \E h \in db.hubs :
             /\ h.hub_id = last.hub_id
             /\ h.hub_code = last.hub_code
             /\ h.user_id = (IF last.hub_code = "A" THEN "user_A" ELSE "user_B")
             /\ h.user_id \in db.users

\* C11 witness: a hub added with user_id None on a store that held no user
C11_Witness ==
    /\ last.op = "add_hub"
    /\ last.user_id = NULL
    /\ last.ret
    /\ db.users = {"user_A"}
    /\ \E h \in db.hubs : h.user_id = "user_A"

\* C6: an add_device whose hub_code is the hub_code of no stored hub is
\* retried with foreign keys off, so that the device row is stored.
C6_DanglingDeviceIsStored ==
    (last.op = "add_device" /\ last.hub_code \notin HubCodes(db))
    => \E x \in db.devices :
          x.device_id = last.device_id /\ x.hub_code = last.hub_code

=============================================================================
